---------------------------- MODULE Spec2Model ----------------------------
(***************************************************************************)
(* OUROBOROS-ZERO: the Persistence Layer (database_handler.py), the        *)
(* Replication-State Manager (quantum_replication.py) and the Orchestrator *)
(* (ouroboros_zero.py) as state machines.                                  *)
(*                                                                         *)
(* Conventions.  Python None is the empty tuple None.  Identifiers are     *)
(* tuples: <<"ID", i>> for caller-chosen ids, <<"OUROBOROS", ts>> for the  *)
(* orchestrator's own id, <<"QC", parent, target, ts>> for the SHA-256     *)
(* derived clone id of (parent, target, timestamp).  Reals are scaled      *)
(* integers (hundredths).  A store statement and its commit are one step:  *)
(* the driver runs statements in issue order, so a close issued between a  *)
(* statement and its commit rolls the statement back, which is the same    *)
(* durable outcome as the close arriving just before the statement.        *)
(***************************************************************************)
EXTENDS Integers, Sequences, FiniteSets, TLC

VARIABLES
    connection,          \* DatabaseHandler.connection: "none" | "open" | "readonly" | "closed"
    clones,              \* table clones, rows in rowid order
    entanglement_pairs,  \* QuantumReplicator.entanglement_pairs
    quantum_state,       \* QuantumReplicator.quantum_state
    entropy,             \* number of os.urandom(32) draws so far
    clock,               \* datetime.now(), in ticks
    call,                \* the last API call of a component-level run and its result
    target_evaluations,  \* table target_evaluations, rows in id order
    learning_rows,       \* table learning_data, rows in id order
    running,             \* OuroborosZero.running
    active_connections,  \* OuroborosZero.active_connections, <<key, value>> in insertion order
    clone_registry,      \* OuroborosZero.clone_registry, <<key, value>> in insertion order
    replication_targets, \* OuroborosZero.replication_targets
    evasion_techniques,  \* StealthModule.evasion_techniques
    stealth_active,      \* StealthModule.active
    learning_data,       \* AIDecisionEngine.learning_data
    decision_history,    \* AIDecisionEngine.decision_history
    risk_tolerance,      \* AIDecisionEngine.risk_tolerance, hundredths
    strategy_parameters, \* AIDecisionEngine.strategy_parameters
    pc,                  \* where the task running main() is suspended
    frame,               \* locals of the control loop: selected targets, position, pending values
    tasks,               \* the shutdown() tasks created by signal_handler, in creation order
    obs                  \* what the run has returned so far (results of initialize,
                         \* replicate_to_target, the attempts of the cycle)

dbVars == <<connection, clones, target_evaluations, learning_rows>>
qrVars == <<entanglement_pairs, quantum_state, entropy, clock>>
aiVars == <<learning_data, decision_history, risk_tolerance, strategy_parameters>>
stealthVars == <<evasion_techniques, stealth_active>>
orchVars == <<running, active_connections, clone_registry, replication_targets,
              pc, frame, tasks, obs>>
vars == <<connection, clones, target_evaluations, learning_rows,
          entanglement_pairs, quantum_state, entropy, clock, call,
          running, active_connections, clone_registry, replication_targets,
          evasion_techniques, stealth_active,
          learning_data, decision_history, risk_tolerance, strategy_parameters,
          pc, frame, tasks, obs>>
\* Everything a call on the Persistence Layer or the Replication-State Manager
\* alone leaves as constructed.
restVars == <<target_evaluations, learning_rows, aiVars, stealthVars, orchVars>>

----------------------------------------------------------------------------
(* Bounds *)

NumIds == 2
NumTargets == 2
MaxCycles == 2
MaxAttempts == 2
MaxSignals == 1
MaxClock == 2
MaxEntropy == 3
MaxLearn == 15
MaxStored == 1
MaxRelearn == 2
GridSteps == 10
MaxFragments == 2
MaxReevaluate == 1
MaxOffset == 2
MaxEvery == 3

None == <<>>
NoCall == [op |-> "none"]
\* Locals of autonomous_operation / replicate_to_target before the first cycle.
NoFrame == [cycle |-> 0, selected |-> <<>>, idx |-> 0, pending |-> None]
\* Nothing has returned yet: the result of initialize(), the last return of
\* replicate_to_target, the attempts of the cycle, how the iteration and the
\* one before it ended.
NoObs == [initialized |-> "pending",
          returned |-> [target_ip |-> None, result |-> FALSE, clone_id |-> None],
          attempts |-> <<>>, iteration |-> "none", previous |-> "none"]

CloneIds == {<<"ID", i>> : i \in 1..NumIds}
\* Host addresses of 192.168.1.0/24, as tuples of octets.
Ip(h) == <<192, 168, 1, h>>
TargetIps == {Ip(h) : h \in 1..NumTargets}
Statuses == {"active", "terminated"}

Range(s) == {s[i] : i \in DOMAIN s}

----------------------------------------------------------------------------
(* Persistence Layer: database_handler.py *)

StoredIds(tbl) == {tbl[i].clone_id : i \in DOMAIN tbl}

RowOf(tbl, id) == CHOOSE i \in DOMAIN tbl : tbl[i].clone_id = id

\* A mutation of the lookup: the parent's generation is not read.
GetCloneGeneration_NoLookup(tbl, clone_id) == 0

\* SELECT generation FROM clones WHERE clone_id = ?; 0 for None or no row.
GetCloneGeneration(tbl, clone_id) ==
    IF clone_id = None THEN 0
    ELSE IF clone_id \in StoredIds(tbl) THEN tbl[RowOf(tbl, clone_id)].generation
    ELSE 0

\* Every statement raises unless the connection is open.  "readonly" is an
\* open connection to a database file that cannot be written (read-only file,
\* or write-locked by another process): SELECT and the IF NOT EXISTS schema
\* script succeed, INSERT and UPDATE raise sqlite3.OperationalError.
StoreUp == connection \in {"open", "readonly"}
StoreWritable == connection = "open"

\* register_clone succeeds iff no statement raises: the connection is open,
\* the file writable and the PRIMARY KEY clone_id is new.
RegisterCloneOk(tbl, clone_id) == StoreWritable /\ clone_id \notin StoredIds(tbl)

CloneRow(tbl, clone_id, parent_id, target_ip) ==
    [clone_id |-> clone_id, parent_id |-> parent_id, target_ip |-> target_ip,
     generation |-> GetCloneGeneration(tbl, parent_id) + 1, status |-> "active"]

\* A mutation of register_clone: INSERT OR REPLACE.
RegisterCloneTable_Replace(tbl, clone_id, parent_id, target_ip) ==
    IF ~StoreWritable THEN tbl
    ELSE IF clone_id \in StoredIds(tbl)
    THEN [i \in DOMAIN tbl |->
             IF tbl[i].clone_id = clone_id
             THEN CloneRow(tbl, clone_id, parent_id, target_ip) ELSE tbl[i]]
    ELSE Append(tbl, CloneRow(tbl, clone_id, parent_id, target_ip))

\* The table after register_clone(clone_id, parent_id, target_ip).
RegisterCloneTable(tbl, clone_id, parent_id, target_ip) ==
    IF RegisterCloneOk(tbl, clone_id)
    THEN Append(tbl, CloneRow(tbl, clone_id, parent_id, target_ip))
    ELSE tbl

\* A mutation of update_clone_status: a terminated record is deleted.
UpdateCloneStatusTable_Delete(tbl, clone_id, status) ==
    IF status = "terminated"
    THEN SelectSeq(tbl, LAMBDA row : row.clone_id # clone_id)
    ELSE [i \in DOMAIN tbl |->
             IF tbl[i].clone_id = clone_id THEN [tbl[i] EXCEPT !.status = status]
             ELSE tbl[i]]

\* UPDATE clones SET status = ?, last_contact = ? WHERE clone_id = ?
UpdateCloneStatusTable(tbl, clone_id, status) ==
    [i \in DOMAIN tbl |->
        IF tbl[i].clone_id = clone_id THEN [tbl[i] EXCEPT !.status = status]
        ELSE tbl[i]]

connect ==
    /\ connection = "none"
    /\ connection' \in {"open", "readonly"}
    /\ call' = [op |-> "connect"]
    /\ UNCHANGED <<clones, qrVars, restVars>>

disconnect ==
    /\ connection' = IF connection = "none" THEN "none" ELSE "closed"
    /\ call' = [op |-> "disconnect"]
    /\ UNCHANGED <<clones, qrVars, restVars>>

register_clone_call(clone_id, parent_id, target_ip) ==
    /\ clones' = RegisterCloneTable(clones, clone_id, parent_id, target_ip)
    /\ call' = [op |-> "register_clone", result |-> RegisterCloneOk(clones, clone_id)]
    /\ UNCHANGED <<connection, qrVars, restVars>>

register_clone ==
    \E clone_id \in CloneIds, parent_id \in CloneIds \cup {None},
       target_ip \in {Ip(1), None} :
        register_clone_call(clone_id, parent_id, target_ip)

\* update_clone_status raises when the store cannot be written.
update_clone_status ==
    \E clone_id \in CloneIds, status \in Statuses :
        /\ clones' = IF StoreWritable THEN UpdateCloneStatusTable(clones, clone_id, status)
                     ELSE clones
        /\ call' = [op |-> "update_clone_status", raised |-> ~StoreWritable]
        /\ UNCHANGED <<connection, qrVars, restVars>>

db_terminate_clone ==
    \E clone_id \in CloneIds :
        /\ clones' = IF StoreWritable
                     THEN UpdateCloneStatusTable(clones, clone_id, "terminated")
                     ELSE clones
        /\ call' = [op |-> "terminate_clone", raised |-> ~StoreWritable]
        /\ UNCHANGED <<connection, qrVars, restVars>>

MaxOf(S) == CHOOSE x \in S : \A y \in S : y <= x

\* A mutation of get_clone_statistics: the active count has no WHERE clause.
GetCloneStatistics_CountAll(tbl, evaluations) ==
    [total_clones |-> Len(tbl),
     active_clones |-> Len(tbl),
     max_generation |-> IF tbl = <<>> THEN 0
                        ELSE MaxOf({tbl[i].generation : i \in DOMAIN tbl}),
     targets_evaluated |-> Cardinality({evaluations[i].target_ip : i \in DOMAIN evaluations})]

\* get_clone_statistics: COUNT(*), COUNT(*) WHERE status = 'active',
\* MAX(generation) (NULL on an empty table, reported as 0),
\* COUNT(DISTINCT target_ip) of target_evaluations.
GetCloneStatistics(tbl, evaluations) ==
    [total_clones |-> Len(tbl),
     active_clones |-> Len(SelectSeq(tbl, LAMBDA row : row.status = "active")),
     max_generation |-> IF tbl = <<>> THEN 0
                        ELSE MaxOf({tbl[i].generation : i \in DOMAIN tbl}),
     targets_evaluated |-> Cardinality({evaluations[i].target_ip : i \in DOMAIN evaluations})]

\* get_clone_statistics raises on a connection that is not open.
get_clone_statistics ==
    /\ call' = IF StoreUp
               THEN [op |-> "get_clone_statistics", raised |-> FALSE,
                     result |-> GetCloneStatistics(clones, target_evaluations)]
               ELSE [op |-> "get_clone_statistics", raised |-> TRUE]
    /\ UNCHANGED <<connection, clones, qrVars, restVars>>

InitDB ==
    /\ connection = "none"
    /\ clones = <<>>
    /\ entanglement_pairs = <<>>
    /\ quantum_state = <<>>
    /\ entropy = 0
    /\ clock = 0
    /\ call = NoCall
    /\ target_evaluations = <<>>
    /\ learning_rows = <<>>
    /\ running = FALSE
    /\ active_connections = <<>>
    /\ clone_registry = <<>>
    /\ replication_targets = <<>>
    /\ evasion_techniques = <<>>
    /\ stealth_active = FALSE
    /\ learning_data = <<>>
    /\ decision_history = <<>>
    /\ risk_tolerance = 60
    /\ strategy_parameters = <<>>
    /\ pc = "connect"
    /\ frame = NoFrame
    /\ tasks = <<>>
    /\ obs = NoObs

NextDB ==
    \/ connect
    \/ disconnect
    \/ register_clone
    \/ update_clone_status
    \/ db_terminate_clone
    \/ get_clone_statistics

SpecDB == InitDB /\ [][NextDB]_vars

----------------------------------------------------------------------------
(* Replication-State Manager: quantum_replication.py *)

\* "QC-" + upper(sha256(parent-target-timestamp)[:16]).
GenerateQuantumId(target_ip, parent_id, now) == <<"QC", parent_id, target_ip, now>>

\* sha256(parent-clone-os.urandom(32).hex()): the n-th draw of 256 random bits
\* is the nonce n, no draw repeats.
EstablishQuantumEntanglement(clone_id, parent_id, n) == <<parent_id, clone_id, n>>

\* _calculate_generation: parent_gen + 1 (get_clone_generation never yields None).
CalculateGeneration(tbl, parent_id) == GetCloneGeneration(tbl, parent_id) + 1

\* A mutation of _capture_quantum_state: the coherence is 0.9.
QuantumStateRecord_LessCoherent ==
    [coherence |-> 90, entanglement_strength |-> 95, superposition_active |-> TRUE]

\* _capture_quantum_state: the record stored for clone_id (hundredths).
QuantumStateRecord ==
    [coherence |-> 99, entanglement_strength |-> 95, superposition_active |-> TRUE]

\* A mutation of the dict assignment: a new key is not stored.
DictPut_ExistingOnly(d, k, v) == [x \in DOMAIN d |-> IF x = k THEN v ELSE d[x]]

\* d[k] = v on a dict.
DictPut(d, k, v) == [x \in DOMAIN d \cup {k} |-> IF x = k THEN v ELSE d[x]]
DictDel(d, k) == [x \in DOMAIN d \ {k} |-> d[x]]

\* A mutation of _capture_quantum_state: the state is not stored.
CaptureQuantumState_NotStored(qstate, clone_id) == qstate

\* _capture_quantum_state(clone_id): self.quantum_state[clone_id] = state.
CaptureQuantumState(qstate, clone_id) == DictPut(qstate, clone_id, QuantumStateRecord)

Entangled(c) == c \in DOMAIN entanglement_pairs

\* A mutation of check_clone_status: the entanglement test looks at the
\* quantum-state map instead.
CheckCloneStatus_ByState(pairs, qstate, clone_id) ==
    IF clone_id \notin DOMAIN qstate
    THEN [healthy |-> FALSE, reason |-> "No entanglement found"]
    ELSE [healthy |-> TRUE, clone_id |-> clone_id,
          quantum_coherence |-> qstate[clone_id].coherence]

\* check_clone_status(clone_id): the returned dictionary.
CheckCloneStatus(pairs, qstate, clone_id) ==
    IF clone_id \notin DOMAIN pairs
    THEN [healthy |-> FALSE, reason |-> "No entanglement found"]
    ELSE [healthy |-> TRUE, clone_id |-> clone_id,
          quantum_coherence |->
              IF clone_id \in DOMAIN qstate THEN qstate[clone_id].coherence ELSE 0]

\* A mutation of repair_clone: the entanglement entry keeps its key.
RepairPairs_KeepKey(pairs, clone_id, n) == pairs

\* repair_clone: the entanglement map after the re-keying branch.
RepairPairs(pairs, clone_id, n) ==
    IF clone_id \in DOMAIN pairs
    THEN [pairs EXCEPT ![clone_id].key =
              EstablishQuantumEntanglement(clone_id, pairs[clone_id].parent, n)]
    ELSE pairs

\* A mutation of terminate_clone: the quantum state is not cleared.
TerminateQuantumState_Keep(qstate, clone_id) == qstate

\* terminate_clone: the quantum-state map after "Clear quantum state".
TerminateQuantumState(qstate, clone_id) ==
    IF clone_id \in DOMAIN qstate THEN DictDel(qstate, clone_id) ELSE qstate

\* A mutation of terminate_clone: the entanglement is not broken.
TerminatePairs_Keep(pairs, clone_id) == pairs

\* terminate_clone: the entanglement map after "Break quantum entanglement".
TerminatePairs(pairs, clone_id) ==
    IF clone_id \in DOMAIN pairs THEN DictDel(pairs, clone_id) ELSE pairs

\* The ids a caller of the Replication-State Manager can name: the parent
\* (never entangled itself) and every clone id the component still knows.
ParentIds == {<<"ID", 1>>}
QrArgs ==
    ParentIds \cup DOMAIN entanglement_pairs \cup DOMAIN quantum_state
        \cup StoredIds(clones)

\* A mutation of the capture in replicate: the quantum state is captured
\* when the call starts.
CaptureOnReplicate_AtStart(verified, clone_id) ==
    DictPut(quantum_state, clone_id, QuantumStateRecord)

\* The quantum-state map after replicate: _capture_quantum_state runs, for
\* clone_info, only in a call that got past verification.
CaptureOnReplicate(verified, clone_id) ==
    IF verified THEN CaptureQuantumState(quantum_state, clone_id)
    ELSE quantum_state

\* replicate(target_ip, connection, parent_id), run to its end.  The only
\* statement that can raise is the generation lookup of the package's
\* configuration (the store is not open); the maps are written after the
\* three simulated delays, in one go.  The next call reads datetime.now()
\* later, or reads the same value: calls may overlap (the id is generated
\* before the first await), and the wall clock has a resolution and can be
\* set back.
replicate ==
    \E target_ip \in {Ip(1)}, parent_id \in ParentIds, elapsed \in {0, 1} :
        LET clone_id == GenerateQuantumId(target_ip, parent_id, clock)
            key == EstablishQuantumEntanglement(clone_id, parent_id, entropy)
        IN
        /\ clock + elapsed <= MaxClock
        /\ entropy < MaxEntropy
        /\ IF ~StoreUp
           THEN /\ call' = [op |-> "replicate", raised |-> TRUE]
                /\ quantum_state' = CaptureOnReplicate(FALSE, clone_id)
                /\ UNCHANGED <<entanglement_pairs, entropy, clock>>
           ELSE /\ quantum_state' = CaptureOnReplicate(TRUE, clone_id)
                /\ entanglement_pairs' =
                       DictPut(entanglement_pairs, clone_id,
                               [parent |-> parent_id, key |-> key])
                /\ entropy' = entropy + 1
                /\ clock' = clock + elapsed
                /\ call' = [op |-> "replicate", raised |-> FALSE,
                            clone_id |-> clone_id, parent_id |-> parent_id,
                            target_ip |-> target_ip, entanglement_key |-> key,
                            status |-> "active",
                            generation |-> CalculateGeneration(clones, parent_id)]
        /\ UNCHANGED <<connection, clones, restVars>>

check_clone_status ==
    \E clone_id \in QrArgs :
        /\ call' = [op |-> "check_clone_status", arg |-> clone_id,
                    result |-> CheckCloneStatus(entanglement_pairs, quantum_state, clone_id)]
        /\ UNCHANGED <<connection, clones, qrVars, restVars>>

repair_clone ==
    \E clone_id \in QrArgs :
        /\ entropy < MaxEntropy
        /\ entanglement_pairs' = RepairPairs(entanglement_pairs, clone_id, entropy)
        /\ entropy' = IF Entangled(clone_id) THEN entropy + 1 ELSE entropy
        /\ quantum_state' = CaptureQuantumState(quantum_state, clone_id)
        /\ call' = [op |-> "repair_clone", arg |-> clone_id, result |-> TRUE,
                    entangled |-> Entangled(clone_id),
                    previous |-> IF Entangled(clone_id) THEN entanglement_pairs[clone_id]
                                 ELSE None]
        /\ UNCHANGED <<connection, clones, clock, restVars>>

\* terminate_clone: the maps are cleared first; the store update raises when
\* the store cannot be written, which is caught and reported as failure.
terminate_clone ==
    \E clone_id \in QrArgs :
        /\ entanglement_pairs' = TerminatePairs(entanglement_pairs, clone_id)
        /\ quantum_state' = TerminateQuantumState(quantum_state, clone_id)
        /\ clones' = IF StoreWritable
                     THEN UpdateCloneStatusTable(clones, clone_id, "terminated")
                     ELSE clones
        /\ call' = [op |-> "terminate_clone", arg |-> clone_id, result |-> StoreWritable,
                    entangled |-> Entangled(clone_id)]
        /\ UNCHANGED <<connection, entropy, clock, restVars>>

\* The caller stores a record for a parent (a root) or for a replicated clone.
qr_register_clone ==
    \E c \in DOMAIN entanglement_pairs :
        register_clone_call(c, entanglement_pairs[c].parent, c[3])

NextQR ==
    \/ connect
    \/ disconnect
    \/ qr_register_clone
    \/ replicate
    \/ check_clone_status
    \/ repair_clone
    \/ terminate_clone

SpecQR == InitDB /\ [][NextQR]_vars

----------------------------------------------------------------------------
(* Heuristic Decision Engine: ai_decision_engine.py.  Scores are integers in  *)
(* thousandths, the hardening score and the risk tolerance in hundredths.     *)

Min(a, b) == IF a < b THEN a ELSE b
Max(a, b) == IF a > b THEN a ELSE b

\* Two intelligence snapshots the control loop is run against: an open,
\* unpatched host and a hardened, monitored one.
SoftTarget ==
    [vulnerabilities |-> 2, open_ports |-> 2, web_services |-> 1, db_services |-> 0,
     neighbors |-> 10,
     firewall_detected |-> FALSE, ids_ips_active |-> FALSE,
     patch_level |-> "critical", hardening_score |-> 30]
HardTarget ==
    [vulnerabilities |-> 0, open_ports |-> 1, web_services |-> 0, db_services |-> 0,
     neighbors |-> 5,
     firewall_detected |-> TRUE, ids_ips_active |-> TRUE,
     patch_level |-> "current", hardening_score |-> 90]
Snapshots == {SoftTarget, HardTarget}

\* A snapshot whose overall risk is 0.7 exactly.
EdgeTarget ==
    [vulnerabilities |-> 0, open_ports |-> 1, web_services |-> 0, db_services |-> 0,
     neighbors |-> 5,
     firewall_detected |-> TRUE, ids_ips_active |-> TRUE,
     patch_level |-> "outdated", hardening_score |-> 51]

\* A mutation of _assess_security_risk: the firewall adds nothing.
AssessSecurityRisk_NoFirewall(info) ==
    Min((IF info.ids_ips_active THEN 300 ELSE 0) + info.hardening_score * 4, 1000)

\* _assess_security_risk
AssessSecurityRisk(info) ==
    Min((IF info.firewall_detected THEN 300 ELSE 0)
        + (IF info.ids_ips_active THEN 300 ELSE 0)
        + info.hardening_score * 4, 1000)

\* _assess_detection_risk: vuln_factor * 0.3 + monitoring_factor * 0.4 + patch_factor * 0.3
AssessDetectionRisk(info) ==
    LET vuln_factor == Max(0, 1000 - info.vulnerabilities * 200)
        monitoring_factor == IF info.ids_ips_active THEN 500 ELSE 100
        patch_factor == CASE info.patch_level = "current" -> 700
                          [] info.patch_level = "outdated" -> 400
                          [] info.patch_level = "critical" -> 200
                          [] OTHER -> 500
    IN (vuln_factor * 3 + monitoring_factor * 4 + patch_factor * 3) \div 10

\* _predict_success
PredictSuccess(info) ==
    LET score == 500 + info.vulnerabilities * 100
                 + (IF info.firewall_detected THEN 0 ELSE 150)
                 + (IF info.ids_ips_active THEN 0 ELSE 150)
                 + (CASE info.patch_level = "current" -> -200
                      [] info.patch_level = "outdated" -> -50
                      [] info.patch_level = "critical" -> 100
                      [] OTHER -> 0)
                 - info.hardening_score * 2
    IN Max(0, Min(score, 1000))

\* _assess_strategic_value: database servers add 0.15, web servers 0.1.
AssessStrategicValue(info) ==
    Min(300 + info.open_ports * 50 + Min(info.neighbors * 20, 300)
        + info.db_services * 150 + info.web_services * 100, 1000)

\* A mutation of evaluate_target: the third weight is 0.4 as well.
OverallRisk_Unnormalised(info) ==
    4 * AssessSecurityRisk(info) + 4 * AssessDetectionRisk(info)
        + 4 * (1000 - PredictSuccess(info))

\* overall_risk in ten-thousandths: security * 0.4 + detection * 0.4 + (1 - success) * 0.2
OverallRisk(info) ==
    4 * AssessSecurityRisk(info) + 4 * AssessDetectionRisk(info)
        + 2 * (1000 - PredictSuccess(info))

\* round(x, 3) of a value in ten-thousandths, as thousandths.
Round3(x) == (x + 5) \div 10

\* A mutation of the expected value: the risk is not subtracted.
ExpectedValue_WithoutRisk(risk, value, success_prob) == value * success_prob

\* expected_value = value * success_prob - risk, in millionths (risk in
\* ten-thousandths, value and success probability in thousandths).
ExpectedValue(risk, value, success_prob) == value * success_prob - risk * 100

\* A mutation of _make_recommendation: a risk equal to the tolerance passes.
MakeRecommendation_AtTolerance(risk, value, success_prob, tolerance) ==
    LET expected_value == ExpectedValue(risk, value, success_prob)
    IN IF expected_value > 300000 /\ risk <= tolerance * 100 THEN "REPLICATE"
       ELSE IF expected_value > 0 /\ risk < 8000 THEN "MONITOR"
       ELSE "AVOID"

\* _make_recommendation(risk, value, success_prob) with risk in ten-thousandths.
MakeRecommendation(risk, value, success_prob, tolerance) ==
    LET expected_value == ExpectedValue(risk, value, success_prob)
    IN IF expected_value > 300000 /\ risk < tolerance * 100 THEN "REPLICATE"
       ELSE IF expected_value > 0 /\ risk < 8000 THEN "MONITOR"
       ELSE "AVOID"

\* evaluate_target: the evaluation record appended to decision_history.
Evaluate(target_ip, info, tolerance) ==
    [target_ip |-> target_ip,
     risk_score |-> Round3(OverallRisk(info)),
     security_risk |-> AssessSecurityRisk(info),
     detection_risk |-> AssessDetectionRisk(info),
     success_probability |-> PredictSuccess(info),
     strategic_value |-> AssessStrategicValue(info),
     recommendation |-> MakeRecommendation(OverallRisk(info), AssessStrategicValue(info),
                                           PredictSuccess(info), tolerance)]

\* strategy_parameters as set by initialize() (hundredths where fractional).
DefaultStrategy ==
    [target_selection_weight_security |-> 70, target_selection_weight_spread |-> 30,
     replication_rate_limit |-> 5, risk_threshold |-> 65, learning_rate |-> 1,
     exploration_rate |-> 20]

Last(s, n) == SubSeq(s, Max(1, Len(s) - n + 1), Len(s))

RECURSIVE SumOf(_, _)
SumOf(s, field) == IF s = <<>> THEN 0 ELSE s[1][field] + SumOf(Tail(s), field)

\* self.learning_data[-100:]
RecentWindow == 100
RecentData(ld) == Last(ld, RecentWindow)

\* A mutation of _update_strategy: no ceiling and no floor.
UpdateStrategy_Unclamped(ld, tolerance) ==
    LET recent_data == RecentData(ld)
        success_count == Cardinality({i \in DOMAIN recent_data :
                                          recent_data[i].outcome = "success"})
    IN IF Len(recent_data) > 10
       THEN IF success_count * 10 > 7 * Len(recent_data) THEN tolerance + 5
            ELSE IF success_count * 10 < 3 * Len(recent_data) THEN tolerance - 5
            ELSE tolerance
       ELSE tolerance

\* _update_strategy: the risk tolerance after a learning entry was appended.
UpdateStrategy(ld, tolerance) ==
    LET recent_data == RecentData(ld)
        success_count == Cardinality({i \in DOMAIN recent_data :
                                          recent_data[i].outcome = "success"})
    IN IF Len(recent_data) > 10
       THEN IF success_count * 10 > 7 * Len(recent_data) THEN Min(tolerance + 5, 80)
            ELSE IF success_count * 10 < 3 * Len(recent_data) THEN Max(tolerance - 5, 40)
            ELSE tolerance
       ELSE tolerance

\* self.decision_history[-50:]
OptimizeWindow == 50

\* A mutation of optimize_strategy: an average risk of exactly 0.7 lowers
\* the threshold as well.
OptimizeStrategy_AtAverage(dh, sp) ==
    IF Len(dh) > OptimizeWindow
           /\ SumOf(Last(dh, OptimizeWindow), "risk_score") >= 700 * OptimizeWindow
    THEN [sp EXCEPT !.risk_threshold = Max(@ - 5, 50)]
    ELSE sp

\* optimize_strategy: the strategy parameters afterwards.
OptimizeStrategy(dh, sp) ==
    IF Len(dh) > OptimizeWindow
           /\ SumOf(Last(dh, OptimizeWindow), "risk_score") > 700 * OptimizeWindow
    THEN [sp EXCEPT !.risk_threshold = Max(@ - 5, 50)]
    ELSE sp

InjectiveSeqs(S, n) ==
    {q \in [1..n -> S] : \A i, j \in 1..n : i # j => q[i] # q[j]}

\* random.sample(population, k): k items at pairwise different positions.
Sample(population, k) ==
    {[i \in 1..k |-> population[q[i]]] : q \in InjectiveSeqs(DOMAIN population, k)}

\* Exploitation: available_targets[:min(max_targets, len(available_targets))].
SelectExploit(available_targets, sp) ==
    SubSeq(available_targets, 1, Min(sp.replication_rate_limit, Len(available_targets)))

\* A mutation of the exploration branch: draws with replacement.
SelectExplore_WithReplacement(available_targets) ==
    UNION {[1..Min(k, Len(available_targets)) -> Range(available_targets)] : k \in 1..3}

\* Exploration: random.sample of min(randint(1, 3), len(available_targets)).
SelectExplore(available_targets) ==
    UNION {Sample(available_targets, Min(k, Len(available_targets))) : k \in 1..3}

\* select_targets: every list the call can return.  Exploitation takes the
\* first min(rate limit, N); exploration draws min(randint(1, 3), N) targets
\* with random.sample.
SelectTargets(available_targets, sp) ==
    {SelectExploit(available_targets, sp)} \cup SelectExplore(available_targets)

\* ORDER BY timestamp DESC LIMIT 1000: the newest rows first.
LoadLimit == 1000
LoadLearningData(rows) ==
    [i \in 1..Min(Len(rows), LoadLimit) |-> rows[Len(rows) + 1 - i]]

----------------------------------------------------------------------------
(* Reconnaissance/Stealth Simulator: stealth_operations.py *)

EvasionTechniques ==
    <<"traffic_randomization", "packet_fragmentation", "timing_obfuscation",
      "protocol_mimicry", "proxy_chaining">>

\* establish_connection: the returned connection.
Connection(target_ip, technique) ==
    [target_ip |-> target_ip, technique |-> technique, encrypted |-> TRUE,
     protocol |-> "custom", status |-> "active"]

\* scan_targets: any list of distinct hosts of the range, at most 50 of them
\* (hosts[:50]); the model scans at most budget hosts.
ScanLimit == 50
ScanResults(budget) ==
    UNION {InjectiveSeqs(TargetIps, n) : n \in 0..Min(Min(NumTargets, ScanLimit), budget)}

----------------------------------------------------------------------------
(* Orchestrator: ouroboros_zero.py.                                          *)
(*                                                                           *)
(* main() is one task; every delivered signal adds a task running            *)
(* shutdown().  Tasks interleave only at awaits.  A step of the main task    *)
(* is the code from one suspension to the next one that the shutdown task    *)
(* can tell apart: a statement on a closed store raises at once, without     *)
(* suspending, so the code that follows it belongs to the same step.         *)

\* _generate_clone_id: "OUROBOROS-" + timestamp of construction.
OwnId == <<"OUROBOROS", 0>>

\* dict item assignment keeping insertion order.
OrderedPut(d, k, v) ==
    IF \E i \in DOMAIN d : d[i][1] = k
    THEN [i \in DOMAIN d |-> IF d[i][1] = k THEN <<k, v>> ELSE d[i]]
    ELSE Append(d, <<k, v>>)

Keys(d) == {d[i][1] : i \in DOMAIN d}

\* disconnect(): close the connection if there is one.
Disconnected(conn) == IF conn = "none" THEN "none" ELSE "closed"

\* asyncio.run cancels the tasks still pending when main() ends.
CancelPending(ts) ==
    [i \in DOMAIN ts |-> IF ts[i].pc = "closing" THEN [ts[i] EXCEPT !.pc = "cancelled"]
                         ELSE ts[i]]

Alive == pc \notin {"exit", "returned"}

\* A mutation of the handler of autonomous_operation: the error ends the loop.
AfterException_Return == "returned"

\* autonomous_operation, except Exception: log and asyncio.sleep(60).
AfterException == "sleep60"

\* The clone info replicate() returns.
CloneInfo(clone_id, parent_id, target_ip, key) ==
    [clone_id |-> clone_id, parent_id |-> parent_id, target_ip |-> target_ip,
     entanglement_key |-> key, status |-> "active", quantum_state |-> QuantumStateRecord]

LearningEntry(target_ip, success) ==
    [target_ip |-> target_ip, outcome |-> IF success THEN "success" ELSE "failure"]

CurrentTarget == frame.selected[frame.idx]

\* What the model keeps of a connection object.  The orchestrator hands it to
\* replicate() and close_connection() and stores it; nothing reads a field
\* other than target_ip.
Tracked(conn) == [target_ip |-> conn.target_ip, status |-> conn.status]

\* replicate_to_target(target) returns success, and the loop feeds the result
\* to learn_from_success / learn_from_failure: the entry is appended, the
\* strategy updated, the entry stored.  The INSERT raises when the store is
\* closed or cannot be written, which ends the iteration in the handler of
\* the loop.
ReturnFromReplicate(target_ip, success, clone_id) ==
    LET entry == LearningEntry(target_ip, success) IN
    /\ learning_data' = Append(learning_data, entry)
    /\ risk_tolerance' = UpdateStrategy(Append(learning_data, entry), risk_tolerance)
    /\ frame' = [frame EXCEPT !.pending = None]
    /\ IF StoreWritable
       THEN /\ learning_rows' = Append(learning_rows, entry)
            /\ pc' = "learned"
       ELSE /\ learning_rows' = learning_rows
            /\ pc' = AfterException
    /\ obs' = [obs EXCEPT
                  !.returned = [target_ip |-> target_ip, result |-> success,
                                clone_id |-> clone_id],
                  !.attempts = Append(@, [target_ip |-> target_ip, result |-> success]),
                  !.iteration = IF StoreWritable THEN @ ELSE "error"]

\* A mutation of monitor_clones: the pass is left out.
MonitorPass_Skipped == "sleep300"

\* autonomous_operation after the for loop over the selected targets: the
\* monitoring pass.
MonitorPass == "monitor"

\* The for loop over the selected targets is over: monitor_clones (which
\* suspends in the health check of the first clone), then optimize_strategy
\* and asyncio.sleep(300).
AfterTargets ==
    IF clone_registry = <<>>
    THEN /\ strategy_parameters' = OptimizeStrategy(decision_history, strategy_parameters)
         /\ pc' = "sleep300"
         /\ obs' = [obs EXCEPT !.iteration = "ok"]
    ELSE /\ strategy_parameters' = strategy_parameters
         /\ pc' = MonitorPass
         /\ obs' = obs

\* initialize(): await the connection; connect() then creates the schema.
init_connect ==
    /\ pc = "connect"
    /\ \E mode \in {"open", "readonly", "none"} :
        IF mode # "none"
        THEN /\ connection' = mode
             /\ pc' = "schema"
             /\ UNCHANGED <<obs, tasks>>
        ELSE /\ pc' = "exit"
             /\ obs' = [obs EXCEPT !.initialized = "false"]
             /\ tasks' = CancelPending(tasks)
             /\ UNCHANGED connection
    /\ UNCHANGED <<clones, target_evaluations, learning_rows, qrVars, call, aiVars,
                   stealthVars, running, active_connections, clone_registry,
                   replication_targets, frame>>

\* initialize(): register_clone(self.clone_id); the result is not looked at.
init_register ==
    /\ pc = "schema"
    /\ clones' = RegisterCloneTable(clones, OwnId, None, None)
    /\ pc' = "register"
    /\ UNCHANGED <<connection, target_evaluations, learning_rows, qrVars, call, aiVars,
                   stealthVars, running, active_connections, clone_registry,
                   replication_targets, frame, tasks, obs>>

\* ai_engine.initialize(): load_learning_data raises on a closed store, and
\* initialize() returns False: main() exits with status 1.
init_load ==
    /\ pc = "register"
    /\ IF StoreUp
       THEN /\ pc' = "load"
            /\ UNCHANGED <<obs, tasks>>
       ELSE /\ pc' = "exit"
            /\ obs' = [obs EXCEPT !.initialized = "false"]
            /\ tasks' = CancelPending(tasks)
    /\ UNCHANGED <<dbVars, qrVars, call, aiVars, stealthVars, running,
                   active_connections, clone_registry, replication_targets, frame>>

\* The rest of initialize() (strategy parameters, stealth_module.activate(),
\* return True) and the start of autonomous_operation(): running = True, the
\* first test of the loop, the first delay of the scan.
start_loop ==
    /\ pc = "load"
    /\ learning_data' = LoadLearningData(learning_rows)
    /\ strategy_parameters' = DefaultStrategy
    /\ evasion_techniques' = EvasionTechniques
    /\ stealth_active' = TRUE
    /\ running' = TRUE
    /\ frame' = [frame EXCEPT !.cycle = 1]
    /\ pc' = "scan"
    /\ obs' = [obs EXCEPT !.initialized = "true", !.attempts = <<>>]
    /\ UNCHANGED <<dbVars, qrVars, call, decision_history, risk_tolerance,
                   active_connections, clone_registry, replication_targets, tasks>>

\* scan_network() returns, select_targets() picks; with a target selected the
\* task suspends in gather_intelligence.
scan_and_select ==
    /\ pc = "scan"
    /\ \E targets \in ScanResults(MaxAttempts - Len(decision_history)) :
        \E selected \in SelectTargets(targets, strategy_parameters) :
            /\ replication_targets' = targets
            /\ frame' = [frame EXCEPT !.selected = selected, !.idx = 1, !.pending = None]
            /\ IF selected = <<>>
               THEN AfterTargets
               ELSE /\ pc' = "evaluate"
                    /\ UNCHANGED <<obs, strategy_parameters>>
    /\ UNCHANGED <<dbVars, qrVars, call, learning_data, decision_history, risk_tolerance,
                   stealthVars, running, active_connections, clone_registry, tasks>>

\* A mutation of store_target_evaluation: the row is inserted twice.
StoreTargetEvaluation_Twice(tbl, evaluation) == Append(Append(tbl, evaluation), evaluation)

\* store_target_evaluation: INSERT INTO target_evaluations, one row.
StoreTargetEvaluation(tbl, evaluation) == Append(tbl, evaluation)

\* evaluate_target(): gather_intelligence returns, the Decision Engine
\* evaluates (and records the evaluation), the evaluation is stored.  When
\* the INSERT raises, replicate_to_target returns False.
evaluate_target ==
    /\ pc = "evaluate"
    /\ \E info \in Snapshots :
        LET evaluation == Evaluate(CurrentTarget, info, risk_tolerance) IN
        /\ decision_history' = Append(decision_history, evaluation)
        /\ IF StoreWritable
           THEN /\ target_evaluations' = StoreTargetEvaluation(target_evaluations, evaluation)
                /\ frame' = [frame EXCEPT !.pending = evaluation]
                /\ pc' = "evaluated"
                /\ UNCHANGED <<learning_rows, learning_data, risk_tolerance, obs>>
           ELSE /\ ReturnFromReplicate(CurrentTarget, FALSE, None)
                /\ UNCHANGED target_evaluations
    /\ UNCHANGED <<connection, clones, qrVars, call, strategy_parameters, stealthVars,
                   running, active_connections, clone_registry, replication_targets,
                   tasks>>

\* A mutation of replicate_to_target: no risk gate.
RiskTooHigh_Never(evaluation) == FALSE

\* replicate_to_target: evaluation['risk_score'] > 0.7 (thousandths).
RiskTooHigh(evaluation) == evaluation.risk_score > 700

\* The risk gate, then establish_connection: random.choice raises on the
\* empty technique list of a deactivated stealth module.
establish_connection ==
    /\ pc = "evaluated"
    /\ IF RiskTooHigh(frame.pending) \/ evasion_techniques = <<>>
       THEN ReturnFromReplicate(CurrentTarget, FALSE, None)
       ELSE /\ \E technique \in Range(evasion_techniques) :
                frame' = [frame EXCEPT
                             !.pending = Tracked(Connection(CurrentTarget, technique))]
            /\ pc' = "establishing"
            /\ UNCHANGED <<learning_rows, learning_data, risk_tolerance, obs>>
    /\ UNCHANGED <<connection, clones, target_evaluations, qrVars, call, decision_history,
                   strategy_parameters, stealthVars, running, active_connections,
                   clone_registry, replication_targets, tasks>>

\* The connection is tracked; replicate() generates the clone id, builds the
\* package (generation lookup in the store) and derives the key, then
\* suspends in the transfer.  The lookup raises on a closed store.
start_replicate ==
    /\ pc = "establishing"
    /\ active_connections' = OrderedPut(active_connections, CurrentTarget, frame.pending)
    /\ IF StoreUp
       THEN LET clone_id == GenerateQuantumId(CurrentTarget, OwnId, clock)
                key == EstablishQuantumEntanglement(clone_id, OwnId, entropy)
            IN
            /\ clock' = clock + 1
            /\ entropy' = entropy + 1
            /\ frame' = [frame EXCEPT !.pending =
                            [clone_id |-> clone_id, entanglement_key |-> key,
                             generation |-> CalculateGeneration(clones, OwnId)]]
            /\ pc' = "replicating"
            /\ UNCHANGED <<learning_rows, learning_data, risk_tolerance, obs>>
       ELSE /\ ReturnFromReplicate(CurrentTarget, FALSE, None)
            /\ UNCHANGED <<clock, entropy>>
    /\ UNCHANGED <<connection, clones, target_evaluations, entanglement_pairs,
                   quantum_state, call, decision_history, strategy_parameters,
                   stealthVars, running, clone_registry, replication_targets, tasks>>

\* replicate() returns after its delays: quantum state and entanglement are
\* recorded, the clone enters the registry, register_clone is called.  When
\* its statements raise, register_clone returns False, nobody looks at it,
\* and replicate_to_target returns True.
finish_replicate ==
    /\ pc = "replicating"
    /\ LET clone_id == frame.pending.clone_id
           key == frame.pending.entanglement_key
       IN
       /\ quantum_state' = DictPut(quantum_state, clone_id, QuantumStateRecord)
       /\ entanglement_pairs' =
              DictPut(entanglement_pairs, clone_id, [parent |-> OwnId, key |-> key])
       /\ clone_registry' =
              OrderedPut(clone_registry, clone_id,
                         CloneInfo(clone_id, OwnId, CurrentTarget, key))
       /\ clones' = RegisterCloneTable(clones, clone_id, OwnId, CurrentTarget)
       /\ IF StoreWritable
          THEN /\ pc' = "registered"
               /\ UNCHANGED <<learning_rows, learning_data, risk_tolerance, obs, frame>>
          ELSE ReturnFromReplicate(CurrentTarget, TRUE, clone_id)
    /\ UNCHANGED <<connection, target_evaluations, entropy, clock, call, decision_history,
                   strategy_parameters, stealthVars, running, active_connections,
                   replication_targets, tasks>>

\* register_clone returns; replicate_to_target returns True.
registered ==
    /\ pc = "registered"
    /\ ReturnFromReplicate(CurrentTarget, TRUE, frame.pending.clone_id)
    /\ UNCHANGED <<connection, clones, target_evaluations, qrVars, call, decision_history,
                   strategy_parameters, stealthVars, running, active_connections,
                   clone_registry, replication_targets, tasks>>

\* The learning entry is stored: next target, or the end of the for loop.
next_target ==
    /\ pc = "learned"
    /\ IF frame.idx < Len(frame.selected)
       THEN /\ frame' = [frame EXCEPT !.idx = @ + 1]
            /\ pc' = "evaluate"
            /\ UNCHANGED <<obs, strategy_parameters>>
       ELSE /\ AfterTargets
            /\ UNCHANGED frame
    /\ UNCHANGED <<dbVars, qrVars, call, learning_data, decision_history, risk_tolerance,
                   stealthVars, running, active_connections, clone_registry,
                   replication_targets, tasks>>

Uppers == <<"A", "B", "C", "D", "E", "F", "G", "H", "I", "J", "K", "L", "M",
            "N", "O", "P", "Q", "R", "S", "T", "U", "V", "W", "X", "Y", "Z">>
Lowers == <<"a", "b", "c", "d", "e", "f", "g", "h", "i", "j", "k", "l", "m",
            "n", "o", "p", "q", "r", "s", "t", "u", "v", "w", "x", "y", "z">>

\* A mutation of str.lower(): the text is left as it is.
Lower_AsIs(text) == text

\* str.lower(), on a string given as the sequence of its characters.
Lower(text) ==
    [i \in DOMAIN text |->
        IF \E k \in DOMAIN Uppers : Uppers[k] = text[i]
        THEN Lowers[CHOOSE k \in DOMAIN Uppers : Uppers[k] = text[i]]
        ELSE text[i]]

\* needle in haystack, for strings given as character sequences.
Contains(haystack, needle) ==
    \E i \in 0..(Len(haystack) - Len(needle)) :
        SubSeq(haystack, i + 1, i + Len(needle)) = needle

\* The characters of the reason texts of check_clone_status.
Chars ==
    [text \in {"No entanglement found"} |->
        <<"N", "o", " ", "e", "n", "t", "a", "n", "g", "l", "e", "m", "e", "n", "t",
          " ", "f", "o", "u", "n", "d">>]

WordEntanglement == <<"e", "n", "t", "a", "n", "g", "l", "e", "m", "e", "n", "t">>
WordDetected == <<"d", "e", "t", "e", "c", "t", "e", "d">>

\* A mutation of decide_clone_action: an entanglement problem is answered
\* with termination.
DecideOnReason_Terminate(reason) ==
    IF Contains(Lower(reason), WordEntanglement) THEN "terminate"
    ELSE IF Contains(Lower(reason), WordDetected) THEN "terminate"
    ELSE "replicate_replacement"

\* decide_clone_action, on the characters of status.get('reason', '').
DecideOnReason(reason) ==
    IF Contains(Lower(reason), WordEntanglement) THEN "repair"
    ELSE IF Contains(Lower(reason), WordDetected) THEN "terminate"
    ELSE "replicate_replacement"

\* decide_clone_action(clone_id, status).
DecideCloneAction(status) ==
    DecideOnReason(IF "reason" \in DOMAIN status THEN Chars[status.reason] ELSE <<>>)

\* A mutation of del d[k]: the item stays.
OrderedDel_Keep(d, k) == d

\* del d[k], on a dict kept as <<key, value>> pairs in insertion order.
OrderedDel(d, k) == SelectSeq(d, LAMBDA item : item[1] # k)

\* The registered clones check_clone_status reports as unhealthy, in the
\* order of the registry.
Unhealthy ==
    SelectSeq(clone_registry,
              LAMBDA item : ~CheckCloneStatus(entanglement_pairs, quantum_state,
                                              item[1]).healthy)

\* monitor_clones, then optimize_strategy and asyncio.sleep(300).  Every
\* unhealthy clone has the same status (it is not entangled), hence the same
\* action: 'repair' captures a quantum state for each and the pass goes on;
\* 'terminate' removes the first one from the maps, the table and the
\* registry, and the dict iterator raises at the next item, which ends the
\* iteration in the handler of the loop; 'replicate_replacement' awaits
\* autonomous_operation() from inside the pass.
monitor_clones ==
    /\ pc = "monitor"
    /\ LET action == IF Unhealthy = <<>> THEN "none"
                     ELSE DecideCloneAction(
                              CheckCloneStatus(entanglement_pairs, quantum_state,
                                               Unhealthy[1][1]))
       IN
       IF action \in {"none", "repair"}
       THEN /\ quantum_state' =
                   [c \in DOMAIN quantum_state \cup Keys(Unhealthy) |->
                       IF c \in Keys(Unhealthy) THEN QuantumStateRecord
                       ELSE quantum_state[c]]
            /\ strategy_parameters' =
                   OptimizeStrategy(decision_history, strategy_parameters)
            /\ pc' = "sleep300"
            /\ obs' = [obs EXCEPT !.iteration = "ok"]
            /\ UNCHANGED <<clones, clone_registry>>
       ELSE IF action = "terminate"
       THEN /\ quantum_state' = TerminateQuantumState(quantum_state, Unhealthy[1][1])
            /\ clones' = IF StoreWritable
                         THEN UpdateCloneStatusTable(clones, Unhealthy[1][1], "terminated")
                         ELSE clones
            /\ clone_registry' = OrderedDel(clone_registry, Unhealthy[1][1])
            /\ pc' = AfterException
            /\ obs' = [obs EXCEPT !.iteration = "error"]
            /\ UNCHANGED strategy_parameters
       ELSE /\ pc' = "reentered"
            /\ UNCHANGED <<quantum_state, clones, clone_registry, strategy_parameters, obs>>
    /\ UNCHANGED <<connection, target_evaluations, learning_rows, entanglement_pairs,
                   entropy, clock, call, learning_data, decision_history, risk_tolerance,
                   stealthVars, running, active_connections, replication_targets,
                   frame, tasks>>

\* The sleep of the iteration (300, or 60 in the handler) ends and the loop
\* tests self.running: another cycle, or autonomous_operation and main()
\* return.
loop_test ==
    /\ pc \in {"sleep300", "sleep60"}
    /\ IF running
       THEN /\ frame.cycle < MaxCycles
            /\ frame' = [frame EXCEPT !.cycle = @ + 1, !.selected = <<>>, !.idx = 0]
            /\ pc' = "scan"
            /\ obs' = [obs EXCEPT !.attempts = <<>>, !.iteration = "none",
                                  !.previous = obs.iteration]
            /\ UNCHANGED tasks
       ELSE /\ pc' = "returned"
            /\ tasks' = CancelPending(tasks)
            /\ UNCHANGED <<frame, obs>>
    /\ UNCHANGED <<dbVars, qrVars, call, aiVars, stealthVars, running,
                   active_connections, clone_registry, replication_targets>>

\* A termination signal: signal_handler creates a task for shutdown(), which
\* clears the flag and starts closing the tracked connections; with none
\* tracked it deactivates the stealth module and disconnects at once.
signal_shutdown ==
    /\ Alive
    /\ Len(tasks) < MaxSignals
    /\ running' = FALSE
    /\ IF active_connections = <<>>
       THEN /\ tasks' = Append(tasks, [pc |-> "done", pos |-> 0, used |-> 0])
            /\ evasion_techniques' = <<>>
            /\ stealth_active' = FALSE
            /\ connection' = Disconnected(connection)
       ELSE /\ tasks' = Append(tasks, [pc |-> "closing", pos |-> 1,
                                       used |-> Len(active_connections)])
            /\ UNCHANGED <<stealthVars, connection>>
    /\ UNCHANGED <<clones, target_evaluations, learning_rows, qrVars, call, aiVars,
                   active_connections, clone_registry, replication_targets, pc, frame, obs>>

\* close_connection returns and the for loop of shutdown() asks the dict
\* iterator for the next item: RuntimeError when the dict has changed size,
\* else the next connection, else deactivate() and disconnect().
shutdown_next ==
    \E i \in DOMAIN tasks :
        /\ Alive
        /\ tasks[i].pc = "closing"
        /\ IF Len(active_connections) # tasks[i].used
           THEN /\ tasks' = [tasks EXCEPT ![i].pc = "crashed"]
                /\ UNCHANGED <<stealthVars, connection>>
           ELSE IF tasks[i].pos < tasks[i].used
           THEN /\ tasks' = [tasks EXCEPT ![i].pos = @ + 1]
                /\ UNCHANGED <<stealthVars, connection>>
           ELSE /\ tasks' = [tasks EXCEPT ![i].pc = "done"]
                /\ evasion_techniques' = <<>>
                /\ stealth_active' = FALSE
                /\ connection' = Disconnected(connection)
        /\ UNCHANGED <<clones, target_evaluations, learning_rows, qrVars, call, aiVars,
                       running, active_connections, clone_registry, replication_targets,
                       pc, frame, obs>>

\* main(): the orchestrator is constructed and the signal handlers are set.
Init == InitDB

Next ==
    \/ init_connect
    \/ init_register
    \/ init_load
    \/ start_loop
    \/ scan_and_select
    \/ evaluate_target
    \/ establish_connection
    \/ start_replicate
    \/ finish_replicate
    \/ registered
    \/ next_target
    \/ monitor_clones
    \/ loop_test
    \/ signal_shutdown
    \/ shutdown_next

Spec == Init /\ [][Next]_vars

----------------------------------------------------------------------------
(* Health monitoring: monitor_clones / handle_unhealthy_clone, called on an  *)
(* orchestrator whose registry and whose Replication-State Manager maps are  *)
(* given.                                                                    *)

\* The registries and maps a pass can start from: any clones of this
\* orchestrator in the registry, any of them entangled, any with a captured
\* quantum state.
MonitorIds == {GenerateQuantumId(Ip(1), OwnId, now) : now \in 0..(NumIds - 1)}
MonitorRegistries ==
    UNION {InjectiveSeqs(MonitorIds, n) : n \in 0..NumIds}

InitMonitor ==
    /\ connection \in {"open", "closed"}
    /\ \E ids \in MonitorRegistries :
        /\ clone_registry =
               [i \in DOMAIN ids |->
                   <<ids[i], CloneInfo(ids[i], OwnId, Ip(1),
                                       EstablishQuantumEntanglement(ids[i], OwnId, i))>>]
        /\ clones =
               [i \in DOMAIN ids |->
                   [clone_id |-> ids[i], parent_id |-> OwnId, target_ip |-> Ip(1),
                    generation |-> 1, status |-> "active"]]
        /\ \E entangled \in SUBSET Range(ids) :
               entanglement_pairs =
                   [c \in entangled |->
                       [parent |-> OwnId,
                        key |-> EstablishQuantumEntanglement(c, OwnId, 0)]]
        /\ \E captured \in SUBSET Range(ids) :
               quantum_state = [c \in captured |-> QuantumStateRecord]
        /\ frame = [pos |-> 1, used |-> Len(ids)]
        /\ obs = [at_start |-> ids, checked |-> <<>>, handled |-> <<>>]
    /\ entropy = NumIds + 1
    /\ clock = NumIds
    /\ call = NoCall
    /\ target_evaluations = <<>>
    /\ learning_rows = <<>>
    /\ running = TRUE
    /\ active_connections = <<>>
    /\ replication_targets = <<>>
    /\ evasion_techniques = EvasionTechniques
    /\ stealth_active = TRUE
    /\ learning_data = <<>>
    /\ decision_history = <<>>
    /\ risk_tolerance = 60
    /\ strategy_parameters = DefaultStrategy
    /\ pc = "monitor"
    /\ tasks = <<>>

\* One turn of the for loop of monitor_clones: the dict iterator is asked for
\* the next item (RuntimeError when the dict has changed size, which nothing
\* in monitor_clones catches), the clone's status is checked, an unhealthy
\* clone is handled.
monitor_next ==
    /\ pc = "monitor"
    /\ IF Len(clone_registry) # frame.used
       THEN /\ pc' = "monitor_raised"
            /\ UNCHANGED <<clones, entanglement_pairs, quantum_state, entropy,
                           clone_registry, frame, obs>>
       ELSE IF frame.pos > frame.used
       THEN /\ pc' = "monitored"
            /\ UNCHANGED <<clones, entanglement_pairs, quantum_state, entropy,
                           clone_registry, frame, obs>>
       ELSE LET clone_id == clone_registry[frame.pos][1]
                status == CheckCloneStatus(entanglement_pairs, quantum_state, clone_id)
                action == IF status.healthy THEN "none" ELSE DecideCloneAction(status)
            IN
            /\ frame' = [frame EXCEPT !.pos = @ + 1]
            /\ obs' = [obs EXCEPT !.checked = Append(@, clone_id),
                                  !.handled = Append(@, action)]
            /\ pc' = IF action = "replicate_replacement" THEN "reentered" ELSE "monitor"
            /\ entanglement_pairs' =
                   IF action = "repair" THEN RepairPairs(entanglement_pairs, clone_id, entropy)
                   ELSE IF action = "terminate" THEN TerminatePairs(entanglement_pairs, clone_id)
                   ELSE entanglement_pairs
            /\ entropy' = IF action = "repair" /\ Entangled(clone_id)
                          THEN entropy + 1 ELSE entropy
            /\ quantum_state' =
                   IF action = "repair"
                   THEN DictPut(quantum_state, clone_id, QuantumStateRecord)
                   ELSE IF action = "terminate"
                   THEN TerminateQuantumState(quantum_state, clone_id)
                   ELSE quantum_state
            /\ clones' = IF action = "terminate" /\ StoreWritable
                         THEN UpdateCloneStatusTable(clones, clone_id, "terminated")
                         ELSE clones
            /\ clone_registry' = IF action = "terminate"
                                 THEN OrderedDel(clone_registry, clone_id)
                                 ELSE clone_registry
    /\ UNCHANGED <<connection, target_evaluations, learning_rows, clock, call, aiVars,
                   stealthVars, running, active_connections, replication_targets, tasks>>

NextMonitor == monitor_next

SpecMonitor == InitMonitor /\ [][NextMonitor]_vars

----------------------------------------------------------------------------
(* Decision Engine called on its own: ai_decision_engine.py on an           *)
(* initialized engine.                                                       *)

\* Everything but the store connection, the stored history, the risk
\* tolerance, the decision history and the pending call, after AIDecisionEngine.initialize() on a store without history.
InitEngine ==
    /\ clones = <<>>
    /\ entanglement_pairs = <<>>
    /\ quantum_state = <<>>
    /\ entropy = 0
    /\ clock = 0
    /\ target_evaluations = <<>>
    /\ running = FALSE
    /\ active_connections = <<>>
    /\ clone_registry = <<>>
    /\ replication_targets = <<>>
    /\ evasion_techniques = <<>>
    /\ stealth_active = FALSE
    /\ learning_data = <<>>
    /\ strategy_parameters = DefaultStrategy
    /\ pc = "engine"
    /\ frame = NoFrame
    /\ tasks = <<>>
    /\ obs = NoObs

\* The lists select_targets is called with: the first n hosts of the range,
\* up to one more than the rate limit; the scan orders of the model's hosts;
\* lists naming a host twice.
SelectInputs ==
    {[i \in 1..n |-> Ip(i)] : n \in 0..(DefaultStrategy.replication_rate_limit + 1)}
        \cup UNION {InjectiveSeqs(TargetIps, n) : n \in 0..NumTargets}
        \cup {<<Ip(1), Ip(1)>>, <<Ip(1), Ip(2), Ip(1)>>}

InitSelect ==
    /\ InitEngine
    /\ decision_history = <<>>
    /\ risk_tolerance = 60
    /\ learning_rows = <<>>
    /\ connection = "open"
    /\ call \in {[op |-> "scan_network", available |-> a] : a \in SelectInputs}

\* select_targets(available_targets): random.random() < exploration_rate
\* picks the mode.
select_targets ==
    /\ call.op = "scan_network"
    /\ \E mode \in {"exploration", "exploitation"} :
        \E selected \in IF mode = "exploration"
                        THEN SelectExplore(call.available)
                        ELSE {SelectExploit(call.available, strategy_parameters)} :
            call' = [op |-> "select_targets", available |-> call.available,
                     mode |-> mode, selected |-> selected]
    /\ UNCHANGED <<dbVars, qrVars, aiVars, stealthVars, orchVars>>

NextSelect == select_targets

SpecSelect == InitSelect /\ [][NextSelect]_vars

\* The snapshots evaluate_target is called with.  Counts as gather_intelligence
\* draws them (0-2 vulnerabilities, 1-4 open ports, 1-3 services of which any
\* may be web or database servers, 5-20 neighbors); the hardening score, in
\* which every score is monotone, at the ends and the middle of [0.3, 0.9]
\* and at the ends of [0, 1].
EvalSnapshots ==
    [vulnerabilities : 0..2, open_ports : 1..4, web_services : 0..3, db_services : 0..3,
     neighbors : {5, 12, 20}, firewall_detected : BOOLEAN, ids_ips_active : BOOLEAN,
     patch_level : {"current", "outdated", "critical"},
     hardening_score : {0, 30, 60, 90, 100}]

\* The risk tolerances of the engine, hundredths: 0.4 to 0.8 in steps of 0.1.
ToleranceGrid == {40 + i * 10 : i \in 0..4}

InitEvaluate ==
    /\ InitEngine
    /\ decision_history = <<>>
    /\ risk_tolerance \in ToleranceGrid
    /\ learning_rows = <<>>
    /\ connection = "open"
    /\ call \in {[op |-> "gather_intelligence", info |-> info] :
                    info \in {x \in EvalSnapshots : x.web_services + x.db_services <= 3}}

\* AIDecisionEngine.evaluate_target(target_info).
ai_evaluate_target ==
    /\ call.op = "gather_intelligence"
    /\ LET evaluation == Evaluate(Ip(1), call.info, risk_tolerance) IN
       /\ call' = [op |-> "evaluate_target", info |-> call.info,
                   evaluation |-> evaluation]
       /\ decision_history' = Append(decision_history, evaluation)
    /\ UNCHANGED <<dbVars, qrVars, learning_data, risk_tolerance, strategy_parameters,
                   stealthVars, orchVars>>

NextEvaluate == ai_evaluate_target

SpecEvaluate == InitEvaluate /\ [][NextEvaluate]_vars

InitLearn ==
    /\ InitEngine
    /\ decision_history = <<>>
    /\ risk_tolerance = 60
    /\ learning_rows = <<>>
    /\ connection \in {"open", "readonly"}
    /\ call = NoCall

\* learn_from_success / learn_from_failure: append the entry, update the
\* strategy, store the entry (which raises on a store that cannot be written).
learn(success) ==
    LET entry == LearningEntry(Ip(1), success) IN
    /\ learning_data' = Append(learning_data, entry)
    /\ risk_tolerance' = UpdateStrategy(Append(learning_data, entry), risk_tolerance)
    /\ learning_rows' = IF StoreWritable THEN Append(learning_rows, entry) ELSE learning_rows
    /\ call' = [op |-> IF success THEN "learn_from_success" ELSE "learn_from_failure",
                raised |-> ~StoreWritable]
    /\ UNCHANGED <<connection, clones, target_evaluations, qrVars, decision_history,
                   strategy_parameters, stealthVars, orchVars>>

learn_from_success == Len(learning_data) < MaxLearn /\ learn(TRUE)

learn_from_failure == Len(learning_data) < MaxLearn /\ learn(FALSE)

NextLearn ==
    \/ learn_from_success
    \/ learn_from_failure

SpecLearn == InitLearn /\ [][NextLearn]_vars

\* The learning_data table before the engine starts, oldest row first: a run
\* of one outcome followed by a run of the other, one row short of the
\* window, as long as the window, or longer.
StoredHistories ==
    {[i \in 1..n |-> LearningEntry(Ip(1), IF i <= older THEN first ELSE ~first)] :
        <<n, older, first>> \in
            {<<n, older, first>> \in ((RecentWindow - 1)..(RecentWindow + MaxStored))
                                        \X (0..(RecentWindow + MaxStored)) \X BOOLEAN :
                 older <= n}}

InitHistory ==
    /\ InitEngine
    /\ decision_history = <<>>
    /\ risk_tolerance = 60
    /\ connection = "open"
    /\ call = NoCall
    /\ learning_rows \in StoredHistories

\* AIDecisionEngine.initialize(): the history is what load_learning_data
\* returns.
ai_initialize ==
    /\ call = NoCall
    /\ StoreUp
    /\ learning_data' = LoadLearningData(learning_rows)
    /\ strategy_parameters' = DefaultStrategy
    /\ call' = [op |-> "initialize", raised |-> FALSE]
    /\ UNCHANGED <<dbVars, qrVars, decision_history, risk_tolerance, stealthVars, orchVars>>

\* learn_from_success / learn_from_failure on the engine that loaded its
\* history.
learn_after_load ==
    /\ call # NoCall
    /\ Len(learning_data) < RecentWindow + MaxStored + MaxRelearn
    /\ \E success \in BOOLEAN : learn(success)

NextHistory ==
    \/ ai_initialize
    \/ learn_after_load

SpecHistory == InitHistory /\ [][NextHistory]_vars

\* The scores _make_recommendation is called with: overall risk in
\* ten-thousandths, value and success probability in thousandths, on grids
\* of [0, 1] that hold the thresholds 0.8 and every tolerance of the grid.
RiskGrid == {i * (10000 \div GridSteps) : i \in 0..GridSteps}
ScoreGrid == {i * (1000 \div (GridSteps \div 2)) : i \in 0..(GridSteps \div 2)}

InitRecommend ==
    /\ InitEngine
    /\ decision_history = <<>>
    /\ connection = "open"
    /\ learning_rows = <<>>
    /\ risk_tolerance \in ToleranceGrid
    /\ call \in [op : {"scores"}, risk : RiskGrid, value : ScoreGrid,
                 success_prob : ScoreGrid]

\* AIDecisionEngine._make_recommendation(risk, value, success_prob).
make_recommendation ==
    /\ call.op = "scores"
    /\ call' = [op |-> "make_recommendation", risk |-> call.risk, value |-> call.value,
                success_prob |-> call.success_prob,
                recommendation |-> MakeRecommendation(call.risk, call.value,
                                                      call.success_prob, risk_tolerance)]
    /\ UNCHANGED <<dbVars, qrVars, aiVars, stealthVars, orchVars>>

NextRecommend == make_recommendation

SpecRecommend == InitRecommend /\ [][NextRecommend]_vars

\* The reason texts decide_clone_action is called with: up to MaxFragments
\* fragments in a row, among them the two words in lower, upper and mixed
\* case, cut short, and other text.
Fragments ==
    { WordEntanglement, WordDetected,
      <<"E", "N", "T", "A", "N", "G", "L", "E", "M", "E", "N", "T">>,
      <<"D", "e", "t", "e", "c", "t", "e", "d">>,
      <<"D", "E", "T", "E", "C", "T", "E", "D">>,
      <<"E", "n", "t", "a", "n", "g", "l", "e", "m", "e", "n", "t">>,
      <<"e", "n", "t", "a", "n", "g", "l", "e">>,
      <<"d", "e", "t", "e", "c", "t">>,
      <<"m", "e", "n", "t">>,
      <<"e", "d">>,
      <<" ">>,
      <<"l", "o", "s", "t">> }

RECURSIVE ReasonTexts(_)
ReasonTexts(n) ==
    IF n = 0 THEN {<<>>}
    ELSE ReasonTexts(n - 1)
            \cup {text \o fragment : text \in ReasonTexts(n - 1), fragment \in Fragments}

\* Status records: with a reason, and without one.
StatusRecords ==
    {[healthy |-> FALSE, reason |-> text] : text \in ReasonTexts(MaxFragments)}
        \cup {[healthy |-> FALSE]}

InitDecide ==
    /\ InitEngine
    /\ decision_history = <<>>
    /\ connection = "open"
    /\ learning_rows = <<>>
    /\ risk_tolerance = 60
    /\ call \in {[op |-> "check_clone_status", status |-> status] :
                    status \in StatusRecords}

\* AIDecisionEngine.decide_clone_action(clone_id, status).
decide_clone_action ==
    /\ call.op = "check_clone_status"
    /\ LET reason == IF "reason" \in DOMAIN call.status THEN call.status.reason ELSE <<>>
       IN call' = [op |-> "decide_clone_action", status |-> call.status,
                   action |-> DecideOnReason(reason)]
    /\ UNCHANGED <<dbVars, qrVars, aiVars, stealthVars, orchVars>>

NextDecide == decide_clone_action

SpecDecide == InitDecide /\ [][NextDecide]_vars

----------------------------------------------------------------------------
(* The text of a clone id: quantum_replication.py, _generate_quantum_id.   *)

\* The characters of hash_obj.hexdigest().
HexDigits == <<"0", "1", "2", "3", "4", "5", "6", "7", "8", "9",
               "a", "b", "c", "d", "e", "f">>

\* Length of the hexdigest of SHA-256, and of the part of it that is kept.
DigestLength == 64
HashLength == 16

\* A mutation of str.upper(): the text is left as it is.
Upper_AsIs(text) == text

\* str.upper(), on a string given as the sequence of its characters.
Upper(text) ==
    [i \in DOMAIN text |->
        IF \E k \in DOMAIN Lowers : Lowers[k] = text[i]
        THEN Uppers[CHOOSE k \in DOMAIN Lowers : Lowers[k] = text[i]]
        ELSE text[i]]

\* f"QC-{hash_obj.hexdigest()[:16].upper()}"
QuantumIdText(hexdigest) ==
    <<"Q", "C", "-">> \o Upper(SubSeq(hexdigest, 1, HashLength))

\* Digests the seed can hash to: SHA-256 is taken as able to yield any
\* string of 64 hex digits; these are the strings whose i-th digit is
\* step * i + first (mod 16).
Digests ==
    {[i \in 1..DigestLength |-> HexDigits[((step * i + first) % 16) + 1]] :
        step \in 0..15, first \in 0..15}

InitQuantumId ==
    /\ InitEngine
    /\ decision_history = <<>>
    /\ connection = "open"
    /\ learning_rows = <<>>
    /\ risk_tolerance = 60
    /\ call \in [op : {"sha256"}, parent_id : ParentIds \cup {None}, target_ip : TargetIps,
                 hexdigest : Digests]

\* QuantumReplicator._generate_quantum_id(target_ip, parent_id).
generate_quantum_id ==
    /\ call.op = "sha256"
    /\ call' = [op |-> "generate_quantum_id", parent_id |-> call.parent_id,
                target_ip |-> call.target_ip, hexdigest |-> call.hexdigest,
                clone_id |-> QuantumIdText(call.hexdigest)]
    /\ UNCHANGED <<dbVars, qrVars, aiVars, stealthVars, orchVars>>

NextQuantumId == generate_quantum_id

SpecQuantumId == InitQuantumId /\ [][NextQuantumId]_vars

----------------------------------------------------------------------------
(* handle_unhealthy_clone called on its own: ouroboros_zero.py.            *)

\* The state at a call handle_unhealthy_clone(clone_id, status): a registry,
\* any entanglement and quantum-state maps over its ids, a registered clone
\* and a status record that says unhealthy.
InitHandle ==
    /\ connection \in {"open", "closed"}
    /\ \E ids \in MonitorRegistries \ {<<>>} :
        /\ clone_registry =
               [i \in DOMAIN ids |->
                   <<ids[i], CloneInfo(ids[i], OwnId, Ip(1),
                                       EstablishQuantumEntanglement(ids[i], OwnId, i))>>]
        /\ clones =
               [i \in DOMAIN ids |->
                   [clone_id |-> ids[i], parent_id |-> OwnId, target_ip |-> Ip(1),
                    generation |-> 1, status |-> "active"]]
        /\ \E entangled \in SUBSET Range(ids) :
               entanglement_pairs =
                   [c \in entangled |->
                       [parent |-> OwnId,
                        key |-> EstablishQuantumEntanglement(c, OwnId, 0)]]
        /\ \E captured \in SUBSET Range(ids) :
               quantum_state = [c \in captured |-> QuantumStateRecord]
        /\ call \in {[op |-> "check_clone_status", clone_id |-> c, status |-> status] :
                        c \in Range(ids),
                        status \in {[healthy |-> FALSE, reason |-> text] :
                                       text \in ReasonTexts(1)
                                                   \cup {Chars["No entanglement found"]}}
                                   \cup {[healthy |-> FALSE]}}
    /\ entropy = NumIds + 1
    /\ clock = NumIds
    /\ target_evaluations = <<>>
    /\ learning_rows = <<>>
    /\ running = TRUE
    /\ active_connections = <<>>
    /\ replication_targets = <<>>
    /\ evasion_techniques = EvasionTechniques
    /\ stealth_active = TRUE
    /\ learning_data = <<>>
    /\ decision_history = <<>>
    /\ risk_tolerance = 60
    /\ strategy_parameters = DefaultStrategy
    /\ pc = "handle"
    /\ frame = NoFrame
    /\ obs = NoObs
    /\ tasks = <<>>

\* handle_unhealthy_clone(clone_id, status): decide_clone_action, then
\* repair_clone, or terminate_clone and del self.clone_registry[clone_id],
\* or autonomous_operation().
handle_unhealthy_clone ==
    /\ pc = "handle"
    /\ LET clone_id == call.clone_id
           reason == IF "reason" \in DOMAIN call.status THEN call.status.reason ELSE <<>>
           action == DecideOnReason(reason)
       IN
       /\ call' = [op |-> "handle_unhealthy_clone", clone_id |-> clone_id,
                   status |-> call.status, action |-> action,
                   invoked |-> CASE action = "repair" -> "repair_clone"
                                 [] action = "terminate" -> "terminate_clone"
                                 [] OTHER -> "autonomous_operation",
                   previous |-> IF Entangled(clone_id) THEN entanglement_pairs[clone_id]
                                ELSE None]
       /\ pc' = IF action = "replicate_replacement" THEN "reentered" ELSE "handled"
       /\ entanglement_pairs' =
              IF action = "repair" THEN RepairPairs(entanglement_pairs, clone_id, entropy)
              ELSE IF action = "terminate" THEN TerminatePairs(entanglement_pairs, clone_id)
              ELSE entanglement_pairs
       /\ entropy' = IF action = "repair" /\ Entangled(clone_id)
                     THEN entropy + 1 ELSE entropy
       /\ quantum_state' =
              IF action = "repair"
              THEN DictPut(quantum_state, clone_id, QuantumStateRecord)
              ELSE IF action = "terminate"
              THEN TerminateQuantumState(quantum_state, clone_id)
              ELSE quantum_state
       /\ clones' = IF action = "terminate" /\ StoreWritable
                    THEN UpdateCloneStatusTable(clones, clone_id, "terminated")
                    ELSE clones
       /\ clone_registry' = IF action = "terminate"
                            THEN OrderedDel(clone_registry, clone_id)
                            ELSE clone_registry
    /\ UNCHANGED <<connection, target_evaluations, learning_rows, clock, aiVars,
                   stealthVars, running, active_connections, replication_targets,
                   frame, tasks, obs>>

NextHandle == handle_unhealthy_clone

SpecHandle == InitHandle /\ [][NextHandle]_vars

----------------------------------------------------------------------------
(* evaluate_target and optimize_strategy in sequence: ai_decision_engine.py. *)

OptimizeSnapshots == {SoftTarget, EdgeTarget, HardTarget}

\* Decision histories left by earlier evaluate_target calls, as long as the
\* window or one longer: a run of evaluations of one snapshot followed by a
\* run of evaluations of another.
EvaluationHistories ==
    {[i \in 1..n |-> Evaluate(Ip(1), IF i <= older THEN a ELSE b, 60)] :
        <<n, older, a, b>> \in
            {<<n, older, a, b>> \in (OptimizeWindow..(OptimizeWindow + 1))
                                       \X (0..(OptimizeWindow + 1))
                                       \X OptimizeSnapshots \X OptimizeSnapshots :
                 older <= n}}

InitOptimize ==
    /\ InitEngine
    /\ connection = "open"
    /\ learning_rows = <<>>
    /\ risk_tolerance = 60
    /\ decision_history \in EvaluationHistories
    /\ call = NoCall

\* One more evaluate_target(target_info).
evaluate_again ==
    /\ Len(decision_history) < OptimizeWindow + 1 + MaxReevaluate
    /\ \E info \in OptimizeSnapshots :
           decision_history' = Append(decision_history, Evaluate(Ip(1), info, risk_tolerance))
    /\ call' = [op |-> "evaluate_target", raised |-> FALSE]
    /\ UNCHANGED <<dbVars, qrVars, learning_data, risk_tolerance, strategy_parameters,
                   stealthVars, orchVars>>

\* AIDecisionEngine.optimize_strategy().
optimize_strategy ==
    /\ strategy_parameters' = OptimizeStrategy(decision_history, strategy_parameters)
    /\ call' = [op |-> "optimize_strategy", raised |-> FALSE]
    /\ UNCHANGED <<dbVars, qrVars, learning_data, risk_tolerance, decision_history,
                   stealthVars, orchVars>>

NextOptimize ==
    \/ evaluate_again
    \/ optimize_strategy

SpecOptimize == InitOptimize /\ [][NextOptimize]_vars

----------------------------------------------------------------------------
(* Reconnaissance/Stealth Simulator called on its own: stealth_operations.py *)

\* Network ranges scan_targets is called with: none (the detected local
\* network is used), networks of 254, 62, 2, 2 and 1 hosts, and a text
\* that ip_network rejects.  A network is its address and prefix length.
LocalNetwork == [address |-> <<192, 168, 1, 0>>, prefix |-> 24]
NetworkRanges ==
    {None, LocalNetwork,
     [address |-> <<192, 168, 1, 64>>, prefix |-> 26],
     [address |-> <<10, 0, 0, 4>>, prefix |-> 30],
     [address |-> <<10, 0, 0, 4>>, prefix |-> 31],
     [address |-> <<10, 0, 0, 5>>, prefix |-> 32],
     [address |-> <<192, 168, 1, 0>>, prefix |-> 33]}

RECURSIVE Pow2(_)
Pow2(n) == IF n = 0 THEN 1 ELSE 2 * Pow2(n - 1)

\* ipaddress.ip_network(network_range, strict=False) for prefixes of 24 and
\* more: ValueError for a prefix above 32, else the host bits are cleared.
ParsesAsNetwork(range) == range.prefix \in 24..32
NetworkOf(range) ==
    [address |-> [range.address EXCEPT ![4] = @ - (@ % Pow2(32 - range.prefix))],
     prefix |-> range.prefix]

\* list(network.hosts()): without the network and broadcast addresses, for
\* /31 both addresses, for /32 the address.
Hosts(network) ==
    LET size == Pow2(32 - network.prefix)
        first == IF size > 2 THEN 1 ELSE 0
        count == IF size > 2 THEN size - 2 ELSE size
    IN [i \in 1..count |-> [network.address EXCEPT ![4] = @ + first + i - 1]]

\* random.shuffle(hosts): the orders of the model visit the list with an odd
\* stride from an offset (lists of 1, 2, 62 and 254 items: a permutation).
Shuffled(hosts, stride, offset) ==
    [i \in DOMAIN hosts |-> hosts[(((i - 1) * stride + offset) % Len(hosts)) + 1]]

\* _is_host_alive for every host of a scan: the hosts whose last octet is a
\* multiple of every, or none.
AlivePatterns == 0..MaxEvery
IsHostAlive(host, every) == every > 0 /\ host[4] % every = 0

\* A mutation of scan_targets: every host of the network is tested.
ScanTargets_NoLimit(range, stride, offset, every) ==
    IF ~ParsesAsNetwork(range) THEN <<>>
    ELSE SelectSeq(Shuffled(Hosts(NetworkOf(range)), stride, offset),
                   LAMBDA host : IsHostAlive(host, every))

\* scan_targets: the list returned for a range that was given.
ScanTargets(range, stride, offset, every) ==
    IF ~ParsesAsNetwork(range) THEN <<>>
    ELSE LET hosts == Shuffled(Hosts(NetworkOf(range)), stride, offset)
         IN SelectSeq(SubSeq(hosts, 1, Min(ScanLimit, Len(hosts))),
                      LAMBDA host : IsHostAlive(host, every))

InitStealth ==
    /\ InitEngine
    /\ connection = "none"
    /\ learning_rows = <<>>
    /\ risk_tolerance = 60
    /\ decision_history = <<>>
    /\ call = NoCall

\* StealthModule.activate().
activate ==
    /\ evasion_techniques' = EvasionTechniques
    /\ stealth_active' = TRUE
    /\ call' = [op |-> "activate", raised |-> FALSE]
    /\ UNCHANGED <<dbVars, qrVars, aiVars, orchVars>>

\* StealthModule.deactivate().
deactivate ==
    /\ evasion_techniques' = <<>>
    /\ stealth_active' = FALSE
    /\ call' = [op |-> "deactivate", raised |-> FALSE]
    /\ UNCHANGED <<dbVars, qrVars, aiVars, orchVars>>

\* StealthModule.establish_connection(target_ip): random.choice raises
\* IndexError on an empty list.
stealth_establish_connection ==
    /\ \E target_ip \in TargetIps :
        IF evasion_techniques = <<>>
        THEN call' = [op |-> "establish_connection", target_ip |-> target_ip,
                      raised |-> TRUE]
        ELSE \E technique \in Range(evasion_techniques) :
                call' = [op |-> "establish_connection", target_ip |-> target_ip,
                         raised |-> FALSE,
                         connection |-> Connection(target_ip, technique)]
    /\ UNCHANGED <<dbVars, qrVars, aiVars, stealthVars, orchVars>>

\* StealthModule.scan_targets(network_range).
scan_targets ==
    /\ \E network_range \in NetworkRanges, stride \in {1, 3}, offset \in 0..MaxOffset,
          every \in AlivePatterns :
        LET range == IF network_range = None THEN LocalNetwork ELSE network_range
        IN call' = [op |-> "scan_targets", network_range |-> network_range,
                    raised |-> FALSE,
                    tested |-> IF ParsesAsNetwork(range)
                               THEN LET hosts == Shuffled(Hosts(NetworkOf(range)),
                                                          stride, offset)
                                    IN SubSeq(hosts, 1, Min(ScanLimit, Len(hosts)))
                               ELSE <<>>,
                    targets |-> ScanTargets(range, stride, offset, every)]
    /\ UNCHANGED <<dbVars, qrVars, aiVars, stealthVars, orchVars>>

NextStealth ==
    \/ activate
    \/ deactivate
    \/ stealth_establish_connection
    \/ scan_targets

SpecStealth == InitStealth /\ [][NextStealth]_vars

----------------------------------------------------------------------------
(* C1 *)

\* C1 (as claimed): every stored clone record that has a parent_id has a
\* generation exactly one greater than its parent's generation (the parent's
\* generation being what the store's lookup returns for it).
C1_ChildIsParentPlusOne ==
    \A i \in DOMAIN clones :
        clones[i].parent_id # None =>
            clones[i].generation = GetCloneGeneration(clones, clones[i].parent_id) + 1

\* C1 (amended): a record without parent has generation 1; a record whose
\* parent was registered before it has the parent's generation + 1; a record
\* whose parent had no row when it was registered has generation 1, also when
\* the parent is registered later.
C1_GenerationByRegistrationOrder ==
    \A i \in DOMAIN clones :
        LET p == clones[i].parent_id IN
        IF p # None /\ \E j \in 1..(i-1) : clones[j].clone_id = p
        THEN clones[i].generation = clones[RowOf(clones, p)].generation + 1
        ELSE clones[i].generation = 1

\* A child of generation 2 stored after its generation-1 parent, next to a
\* record whose parent was registered only after it.
C1_Witness ==
    /\ \E i, j \in DOMAIN clones :
        /\ i < j
        /\ clones[j].parent_id = clones[i].clone_id
        /\ clones[j].generation = 2
    /\ \E i, j \in DOMAIN clones :
        /\ i < j
        /\ clones[i].parent_id = clones[j].clone_id
        /\ clones[i].generation = 1

----------------------------------------------------------------------------
(* C2 *)

\* C2 (as claimed): after terminate_clone(c) on an entangled clone c, c is in
\* neither map and the persisted status of c is 'terminated'.
C2_TerminatedAndPersisted ==
    (call.op = "terminate_clone" /\ call.entangled) =>
        /\ call.arg \notin DOMAIN entanglement_pairs
        /\ call.arg \notin DOMAIN quantum_state
        /\ call.arg \in StoredIds(clones)
        /\ clones[RowOf(clones, call.arg)].status = "terminated"

\* C2 (amended): after terminate_clone(c) on an entangled clone c, c is in
\* neither map; when the call returned success and c has a persisted record,
\* the status of that record is 'terminated'.
C2_TerminateClearsMaps ==
    (call.op = "terminate_clone" /\ call.entangled) =>
        /\ call.arg \notin DOMAIN entanglement_pairs
        /\ call.arg \notin DOMAIN quantum_state
        /\ (call.result /\ call.arg \in StoredIds(clones)) =>
               clones[RowOf(clones, call.arg)].status = "terminated"

\* An entangled, registered clone was terminated with success.
C2_Witness ==
    /\ call.op = "terminate_clone"
    /\ call.entangled
    /\ call.result
    /\ call.arg \in StoredIds(clones)
    /\ clones[RowOf(clones, call.arg)].status = "terminated"

----------------------------------------------------------------------------
(* C3 *)

\* C3 (as claimed): check_clone_status(c) reports unhealthy with the reason
\* 'no entanglement found' exactly when c is not in the entanglement map, and
\* healthy whenever c is entangled and has a captured quantum state.
C3_ReasonAsClaimed ==
    call.op = "check_clone_status" =>
        /\ (~call.result.healthy /\ call.result.reason = "no entanglement found")
               <=> ~Entangled(call.arg)
        /\ (Entangled(call.arg) /\ call.arg \in DOMAIN quantum_state)
               => call.result.healthy

\* C3 (amended): the same with the reason text the code returns,
\* 'No entanglement found'.
C3_UnhealthyIffNotEntangled ==
    call.op = "check_clone_status" =>
        /\ (~call.result.healthy /\ call.result.reason = "No entanglement found")
               <=> ~Entangled(call.arg)
        /\ call.result.healthy <=> Entangled(call.arg)
        /\ (Entangled(call.arg) /\ call.arg \in DOMAIN quantum_state)
               => call.result.healthy

\* A status check of a clone that has a captured state but no entanglement
\* (it was terminated and then repaired).
C3_Witness ==
    /\ call.op = "check_clone_status"
    /\ ~Entangled(call.arg)
    /\ call.arg \in DOMAIN quantum_state
    /\ call.arg \notin ParentIds
    /\ \E c \in DOMAIN entanglement_pairs : c \in DOMAIN quantum_state

----------------------------------------------------------------------------
(* C4 *)

\* C4: repair_clone(c) on an entangled clone c returns success, leaves c in
\* the entanglement map with the same parent, and replaces its key with a
\* value different from the previous key.
C4_RepairChangesKey ==
    (call.op = "repair_clone" /\ call.entangled) =>
        /\ call.result
        /\ Entangled(call.arg)
        /\ entanglement_pairs[call.arg].parent = call.previous.parent
        /\ entanglement_pairs[call.arg].key # call.previous.key

\* An entangled clone was repaired twice in a row.
C4_Witness ==
    /\ call.op = "repair_clone"
    /\ call.entangled
    /\ call.result
    /\ call.previous.key[3] >= 1
    /\ call.previous.key[3] < entanglement_pairs[call.arg].key[3]

----------------------------------------------------------------------------
(* C5 *)

\* C5: whenever replicate_to_target(t) has reported success, the new clone
\* is in the in-memory clone registry and the store holds a record for it
\* with parent = the orchestrator's id and target = t.
C5_SuccessMeansRegisteredAndStored ==
    obs.returned.result =>
        /\ obs.returned.clone_id \in Keys(clone_registry)
        /\ \E i \in DOMAIN clones :
               /\ clones[i].clone_id = obs.returned.clone_id
               /\ clones[i].parent_id = OwnId
               /\ clones[i].target_ip = obs.returned.target_ip

----------------------------------------------------------------------------
(* C6 *)

\* C6: whenever initialize() has returned success, the store holds a record
\* for the orchestrator's own id as an active root agent (no parent,
\* generation 1).
C6_InitializedMeansRootRecord ==
    obs.initialized = "true" =>
        \E i \in DOMAIN clones :
            /\ clones[i].clone_id = OwnId
            /\ clones[i].parent_id = None
            /\ clones[i].generation = 1
            /\ clones[i].status = "active"

----------------------------------------------------------------------------
(* C7 *)

\* C7: once shutdown() has been invoked by a termination signal (at any time
\* after the handlers are registered), the running flag stays false.
C7_FlagStaysFalseAfterShutdown ==
    Len(tasks) > 0 => ~running

----------------------------------------------------------------------------
(* C8 *)

\* C8: every invocation of shutdown() runs to completion, however the steps
\* of the control loop interleave with it: its iteration over
\* active_connections never ends in an error.
C8_ShutdownNeverCrashes ==
    \A i \in DOMAIN tasks : tasks[i].pc # "crashed"

----------------------------------------------------------------------------
(* C9 *)

\* C9: while the running flag is true autonomous_operation never returns;
\* an exception raised inside an iteration leads to the 60-unit sleep, and
\* after that sleep the loop, still running, starts the next iteration.
C9_ErrorsNeverEndTheLoop ==
    [][ /\ (pc # "returned" /\ pc' = "returned") =>
               (pc \in {"sleep300", "sleep60"} /\ ~running)
        /\ (obs.iteration # "error" /\ obs'.iteration = "error") => pc' = "sleep60"
        /\ (pc = "sleep60" /\ running /\ pc' # "sleep60") =>
               (pc' = "scan" /\ frame'.cycle = frame.cycle + 1) ]_vars

\* An iteration ended in an exception and the loop, still running, has
\* started the next one.
C9_Witness ==
    pc = "scan" /\ obs.previous = "error" /\ running

----------------------------------------------------------------------------
(* C10 *)

\* C10: in every cycle each target returned by select_targets is attempted
\* exactly once, in order: when the iteration is over (the loop sleeps), the
\* attempts of the cycle are the selected targets.
C10_EverySelectedTargetAttempted ==
    pc \in {"sleep300", "sleep60"} =>
        [i \in DOMAIN obs.attempts |-> obs.attempts[i].target_ip] = frame.selected

----------------------------------------------------------------------------
(* C11 *)

\* C11: a pass of monitor_clones that is over has asked for the status of
\* every clone that was in the registry when it started, in order, whatever
\* was done for the unhealthy ones; and the pass never dies in the loop.
C11_PassChecksEveryClone ==
    /\ pc # "monitor_raised"
    /\ pc \in {"monitored", "reentered"} => obs.checked = obs.at_start

\* A pass is over in which the first clone was unhealthy and repaired, and
\* the clone after it was checked as well.
C11_Witness ==
    /\ pc = "monitored"
    /\ Len(obs.checked) >= 2
    /\ obs.handled[1] = "repair"

----------------------------------------------------------------------------
(* C12 *)

\* C12: while replicate_to_target(t) evaluates t and the evaluation's risk
\* score is above 0.7, active_connections, the clone registry, the
\* entanglement map, the quantum-state map and the clones table do not
\* change, and the call returns failure for t.
C12_HighRiskLeavesStateAlone ==
    [][ /\ (pc = "evaluate" /\ pc' = "evaluated" /\ frame'.pending.risk_score > 700) =>
               UNCHANGED <<active_connections, clone_registry, entanglement_pairs,
                           quantum_state, clones>>
        /\ (pc = "evaluated" /\ frame.pending.risk_score > 700) =>
               /\ UNCHANGED <<active_connections, clone_registry, entanglement_pairs,
                              quantum_state, clones>>
               /\ pc' # pc =>
                      /\ pc' \in {"learned", "sleep60"}
                      /\ obs'.returned = [target_ip |-> CurrentTarget, result |-> FALSE,
                                          clone_id |-> None] ]_vars

\* replicate_to_target has returned failure for a target whose recorded
\* evaluation has a risk score above 0.7.
C12_Witness ==
    /\ pc = "learned"
    /\ ~obs.returned.result
    /\ decision_history # <<>>
    /\ decision_history[Len(decision_history)].risk_score > 700
    /\ decision_history[Len(decision_history)].target_ip = obs.returned.target_ip
    /\ target_evaluations # <<>>

----------------------------------------------------------------------------
(* C13 *)

\* C13: replicate_to_target returns failure whenever a statement of its
\* sequence raises: the store of the evaluation, the pick of an evasion
\* technique, the generation lookup of replicate, the registration.
C13_EveryExceptionReturnsFailure ==
    [][ ( /\ pc' # pc
          /\ \/ pc = "evaluate" /\ ~StoreWritable
             \/ pc = "evaluated" /\ evasion_techniques = <<>>
             \/ pc = "establishing" /\ ~StoreUp
             \/ pc = "replicating" /\ ~StoreWritable )
        => /\ obs'.returned.target_ip = CurrentTarget
           /\ ~obs'.returned.result ]_vars

----------------------------------------------------------------------------
(* C14 *)

\* C14: a register_clone call that reports failure (the store is closed or
\* cannot be written, or the clone_id is already stored) leaves the clones
\* table exactly as it was; a call that reports success has added one row.
C14_FailedRegisterLeavesTable ==
    [][ call'.op = "register_clone" =>
            IF call'.result THEN Len(clones') = Len(clones) + 1 ELSE clones' = clones ]_vars

\* register_clone has reported failure for an id that was already stored, on
\* a writable store.
C14_Witness ==
    /\ call.op = "register_clone"
    /\ ~call.result
    /\ StoreWritable
    /\ clones # <<>>

----------------------------------------------------------------------------
(* C15 *)

\* C15: no persistence operation removes a stored clone id, and
\* terminate_clone changes nothing but the status of the addressed record
\* (nothing at all when the id is not stored).
C15_RecordsAreNeverDeleted ==
    [][ /\ StoredIds(clones) \subseteq StoredIds(clones')
        /\ call'.op = "terminate_clone" =>
               /\ Len(clones') = Len(clones)
               /\ \E c \in CloneIds :
                      \A i \in DOMAIN clones :
                          \/ clones'[i] = clones[i]
                          \/ /\ clones[i].clone_id = c
                             /\ clones'[i] = [clones[i] EXCEPT !.status = "terminated"] ]_vars

\* terminate_clone has gone through on a store with two records: one is
\* terminated, the other still active.
C15_Witness ==
    /\ call.op = "terminate_clone"
    /\ ~call.raised
    /\ \E i, j \in DOMAIN clones :
           clones[i].status = "terminated" /\ clones[j].status = "active"

----------------------------------------------------------------------------
(* C16 *)

\* C16: get_clone_statistics reports the number of stored records, the
\* number of those with status 'active' (never more than the total) and the
\* largest stored generation (0 on an empty table); on a table of freshly
\* registered roots total and active both equal the number of roots.
C16_StatisticsCountTheTable ==
    (call.op = "get_clone_statistics" /\ ~call.raised) =>
        /\ call.result.total_clones = Cardinality(StoredIds(clones))
        /\ call.result.active_clones =
               Cardinality({c \in StoredIds(clones) : clones[RowOf(clones, c)].status = "active"})
        /\ call.result.active_clones <= call.result.total_clones
        /\ \A i \in DOMAIN clones : clones[i].generation <= call.result.max_generation
        /\ \/ clones = <<>> /\ call.result.max_generation = 0
           \/ \E i \in DOMAIN clones : clones[i].generation = call.result.max_generation
        /\ (\A i \in DOMAIN clones :
                clones[i].parent_id = None /\ clones[i].status = "active") =>
               /\ call.result.total_clones = Len(clones)
               /\ call.result.active_clones = Len(clones)

\* Statistics taken on a store with a terminated record and an active one.
C16_Witness ==
    /\ call.op = "get_clone_statistics"
    /\ ~call.raised
    /\ call.result.total_clones = 2
    /\ call.result.active_clones = 1

----------------------------------------------------------------------------
(* C17 *)

----------------------------------------------------------------------------
(* C18 *)

\* C18: for a snapshot within the ranges of the data model, the overall
\* risk score and the four sub-scores of the evaluation lie in [0, 1]
\* (thousandths).
C18_ScoresWithinUnitInterval ==
    ( /\ call.op = "evaluate_target"
      /\ call.info.hardening_score \in 30..90 ) =>
        \A score \in {call.evaluation.risk_score, call.evaluation.security_risk,
                      call.evaluation.detection_risk,
                      call.evaluation.success_probability,
                      call.evaluation.strategic_value} :
            score \in 0..1000

\* An evaluation of a snapshot within the ranges whose strategic value and
\* security risk are both clamped to 1.
C18_Witness ==
    /\ call.op = "evaluate_target"
    /\ call.info.hardening_score \in 30..90
    /\ call.evaluation.strategic_value = 1000
    /\ call.evaluation.risk_score > 800
    /\ decision_history = <<call.evaluation>>

----------------------------------------------------------------------------
(* C19 *)

\* C19: with a firewall detected and IDS/IPS active the security risk is
\* above 0.5 for every hardening score of [0, 1], and the security risk is
\* never above 1.0.
C19_DefendedHostIsRisky ==
    call.op = "evaluate_target" =>
        /\ call.evaluation.security_risk <= 1000
        /\ (call.info.firewall_detected /\ call.info.ids_ips_active) =>
               call.evaluation.security_risk > 500

\* A defended host with hardening score 0 has been evaluated.
C19_Witness ==
    /\ call.op = "evaluate_target"
    /\ call.info.firewall_detected
    /\ call.info.ids_ips_active
    /\ call.info.hardening_score = 0
    /\ call.evaluation.security_risk = 600

----------------------------------------------------------------------------
(* C20 *)

\* C20: over learn_from_success / learn_from_failure calls the risk
\* tolerance stays within [0.4, 0.8]; a call changes it by at most 0.05,
\* raises it only when the success rate of the entries is above 0.7, lowers
\* it only when that rate is below 0.3, and leaves it alone while there are
\* 10 entries or fewer.
C20_ToleranceMovesSlowlyWithinBounds ==
    [][ LET n == Len(learning_data')
            successes == Cardinality({i \in DOMAIN learning_data' :
                                          learning_data'[i].outcome = "success"})
        IN /\ risk_tolerance' \in 40..80
           /\ risk_tolerance' - risk_tolerance \in -5..5
           /\ risk_tolerance' > risk_tolerance => 10 * successes > 7 * n
           /\ risk_tolerance' < risk_tolerance => 10 * successes < 3 * n
           /\ n <= 10 => risk_tolerance' = risk_tolerance ]_vars

\* The tolerance has come down to the floor and a further failure has left
\* it there.
C20_Witness ==
    /\ risk_tolerance = 40
    /\ Len(learning_data) = 15
    /\ \A i \in DOMAIN learning_data : learning_data[i].outcome = "failure"

----------------------------------------------------------------------------
(* C21 *)

SuccessesIn(entries) ==
    Cardinality({i \in DOMAIN entries : entries[i].outcome = "success"})

\* C21: the entries the strategy update computes its success rate over are
\* the (up to) 100 chronologically most recent entries known to the engine,
\* also when part of the history was loaded by initialize().  (On a writable
\* store of at most 1000 rows the table, oldest row first, is the
\* chronological history known to the engine.)
C21_RateOverMostRecentEntries ==
    call.op \in {"learn_from_success", "learn_from_failure"} =>
        /\ Len(RecentData(learning_data)) = Len(Last(learning_rows, RecentWindow))
        /\ SuccessesIn(RecentData(learning_data))
               = SuccessesIn(Last(learning_rows, RecentWindow))

----------------------------------------------------------------------------
(* C22 *)

\* C22: in learn_from_success / learn_from_failure the strategy update runs
\* only after the entry has been appended to the in-memory history and to
\* the Persistence Layer; so a call in which persisting the entry fails has
\* not changed the risk tolerance.
C22_FailedPersistLeavesTolerance ==
    [][ ( /\ call'.op \in {"learn_from_success", "learn_from_failure"}
          /\ call'.raised )
        => risk_tolerance' = risk_tolerance ]_vars

----------------------------------------------------------------------------
(* C23 *)

\* C23: for risk, value and success probability in [0, 1] and a risk
\* tolerance in [0.4, 0.8] the recommendation is REPLICATE iff
\* value * success - risk > 0.3 and risk < tolerance; otherwise MONITOR iff
\* value * success - risk > 0 and risk < 0.8; otherwise AVOID.
\* (risk in ten-thousandths, value and success in thousandths, tolerance in
\* hundredths: value * success - risk is in units of 10^-6.)
C23_RecommendationFollowsThresholds ==
    call.op = "make_recommendation" =>
        LET expected == call.value * call.success_prob - 100 * call.risk
            should_replicate == expected > 300000 /\ call.risk < 100 * risk_tolerance
            should_monitor == expected > 0 /\ call.risk < 8000
        IN /\ (call.recommendation = "REPLICATE") <=> should_replicate
           /\ (call.recommendation = "MONITOR") <=> (~should_replicate /\ should_monitor)
           /\ (call.recommendation = "AVOID") <=> (~should_replicate /\ ~should_monitor)

\* A risk equal to the tolerance with an expected value above 0.3: MONITOR.
C23_Witness ==
    /\ call.op = "make_recommendation"
    /\ call.risk = 100 * risk_tolerance
    /\ call.value * call.success_prob - 100 * call.risk > 300000
    /\ call.recommendation = "MONITOR"

----------------------------------------------------------------------------
(* C24 *)

\* C24: decide_clone_action answers 'repair' whenever the reason contains
\* 'entanglement' in any letter case (also when it contains 'detected' too),
\* 'terminate' when it contains 'detected' but not 'entanglement', and
\* 'replicate_replacement' otherwise, a status without reason included.
C24_ActionFollowsReason ==
    call.op = "decide_clone_action" =>
        LET reason == IF "reason" \in DOMAIN call.status THEN call.status.reason ELSE <<>>
            SameLetter(c, lower) ==
                \/ c = lower
                \/ \E k \in DOMAIN Uppers : Uppers[k] = c /\ Lowers[k] = lower
            Mentions(word) ==
                \E offset \in 0..(Len(reason) - Len(word)) :
                    \A k \in DOMAIN word : SameLetter(reason[offset + k], word[k])
        IN call.action =
               IF Mentions(WordEntanglement) THEN "repair"
               ELSE IF Mentions(WordDetected) THEN "terminate"
               ELSE "replicate_replacement"

\* A reason with 'Detected' followed by 'ENTANGLEMENT' has been answered
\* with 'repair'.
C24_Witness ==
    /\ call.op = "decide_clone_action"
    /\ "reason" \in DOMAIN call.status
    /\ call.status.reason =
           <<"D", "e", "t", "e", "c", "t", "e", "d">>
               \o <<"E", "N", "T", "A", "N", "G", "L", "E", "M", "E", "N", "T">>
    /\ call.action = "repair"

----------------------------------------------------------------------------
(* C25 *)

\* C25: clone ids are globally unique: a successful replicate call, for any
\* parent and target (the parent and target of an earlier call included),
\* returns an id that no earlier call returned, so it overwrites no
\* existing entanglement entry.  (A replicate call that went through is
\* the step that draws the random bytes of the key.)
C25_ReplicateReturnsFreshId ==
    [][ ( /\ call'.op = "replicate"
          /\ ~call'.raised
          /\ entropy' # entropy )
        => call'.clone_id \notin DOMAIN entanglement_pairs ]_vars

----------------------------------------------------------------------------
(* C26 *)

\* C26: for every parent id and target address the generated clone id is
\* 'QC-' followed by exactly 16 upper-case hexadecimal characters, 19
\* characters in all.
C26_IdIsPrefixAndSixteenHexDigits ==
    call.op = "generate_quantum_id" =>
        /\ Len(call.clone_id) = 19
        /\ SubSeq(call.clone_id, 1, 3) = <<"Q", "C", "-">>
        /\ \A i \in 4..19 :
               call.clone_id[i] \in {"0", "1", "2", "3", "4", "5", "6", "7", "8", "9",
                                     "A", "B", "C", "D", "E", "F"}

\* An id whose digest began with the letters 'f' and 'a'.
C26_Witness ==
    /\ call.op = "generate_quantum_id"
    /\ call.hexdigest[1] = "f"
    /\ call.hexdigest[2] = "a"
    /\ SubSeq(call.clone_id, 1, 5) = <<"Q", "C", "-", "F", "A">>

----------------------------------------------------------------------------
(* C27 *)

\* C27: when replicate(target, connection, parent) has returned, the
\* returned clone id is in the entanglement map with that parent and the
\* returned key, it has a quantum-state entry with coherence 0.99, the
\* returned status is 'active', and check_clone_status on the id, called
\* next, reports healthy.
C27_ReturnedCloneIsEntangled ==
    (call.op = "replicate" /\ ~call.raised) =>
        /\ call.clone_id \in DOMAIN entanglement_pairs
        /\ entanglement_pairs[call.clone_id].parent = call.parent_id
        /\ entanglement_pairs[call.clone_id].key = call.entanglement_key
        /\ call.clone_id \in DOMAIN quantum_state
        /\ quantum_state[call.clone_id].coherence = 99
        /\ call.status = "active"
        /\ CheckCloneStatus(entanglement_pairs, quantum_state, call.clone_id).healthy
        /\ CheckCloneStatus(entanglement_pairs, quantum_state,
                            call.clone_id).quantum_coherence = 99

\* A second replicate has returned while the clone of the first is still
\* entangled.
C27_Witness ==
    /\ call.op = "replicate"
    /\ ~call.raised
    /\ Cardinality(DOMAIN entanglement_pairs) = 2
    /\ call.clone_id \in DOMAIN entanglement_pairs

----------------------------------------------------------------------------
(* C28 *)

\* C28: handle_unhealthy_clone does what decide_clone_action chose: for
\* 'repair' repair_clone is invoked (the clone has a fresh quantum state
\* and, if it was entangled, a new key) and the clone stays in the
\* registry; for 'terminate' terminate_clone is invoked and afterwards the
\* clone is in neither the registry nor the entanglement map.
C28_HandlingFollowsDecision ==
    call.op = "handle_unhealthy_clone" =>
        /\ call.action = "repair" =>
               /\ call.invoked = "repair_clone"
               /\ call.clone_id \in Keys(clone_registry)
               /\ call.clone_id \in DOMAIN quantum_state
               /\ call.previous # None =>
                      /\ call.clone_id \in DOMAIN entanglement_pairs
                      /\ entanglement_pairs[call.clone_id].key # call.previous.key
        /\ call.action = "terminate" =>
               /\ call.invoked = "terminate_clone"
               /\ call.clone_id \notin Keys(clone_registry)
               /\ call.clone_id \notin DOMAIN entanglement_pairs
               /\ call.clone_id \notin DOMAIN quantum_state
        /\ call.action = "replicate_replacement" =>
               /\ call.invoked = "autonomous_operation"
               /\ call.clone_id \in Keys(clone_registry)

\* An entangled clone reported as detected has been terminated; the other
\* clone is still registered.
C28_Witness ==
    /\ call.op = "handle_unhealthy_clone"
    /\ call.action = "terminate"
    /\ call.previous # None
    /\ Len(clone_registry) = 1
    /\ call.clone_id \notin Keys(clone_registry)

----------------------------------------------------------------------------
(* C29 *)

\* C29: over evaluate_target and optimize_strategy calls the risk_threshold
\* never goes up and stays within [0.5, 0.65]; optimize_strategy lowers it,
\* by 0.05 and not below 0.5, only when there are more than 50 evaluations
\* and the risk scores of the 50 most recent ones average above 0.7, and
\* changes no strategy parameter otherwise; evaluate_target changes none.
C29_ThresholdOnlyGoesDown ==
    [][ LET before == strategy_parameters.risk_threshold
            after == strategy_parameters'.risk_threshold
            recent == SubSeq(decision_history, Len(decision_history) - 49,
                             Len(decision_history))
            high == /\ Len(decision_history) > 50
                    /\ SumOf(recent, "risk_score") > 50 * 700
        IN /\ after <= before
           /\ after \in 50..65
           /\ strategy_parameters' # strategy_parameters =>
                  /\ call'.op = "optimize_strategy"
                  /\ high
                  /\ after = Max(before - 5, 50)
                  /\ strategy_parameters' =
                         [strategy_parameters EXCEPT !.risk_threshold = after] ]_vars

\* optimize_strategy has left the threshold at the floor with a history
\* whose average risk is above 0.7.
C29_Witness ==
    /\ call.op = "optimize_strategy"
    /\ strategy_parameters.risk_threshold = 50
    /\ Len(decision_history) > 50
    /\ SumOf(Last(decision_history, 50), "risk_score") > 50 * 700

----------------------------------------------------------------------------
(* C30 *)

\* C30: within a cycle of the control loop the steps run in the order scan
\* and select, replicate (per selected target), monitor, optimize and
\* sleep, one after the other: the loop never goes back to an earlier step
\* of the cycle, never leaves out the monitoring pass over a registry with
\* clones unless an error ended the iteration, starts a scan only from the
\* sleep that ends a cycle, and never starts a second scan / replicate pass
\* from inside a monitoring pass.
C30_StepsOfACycleInOrder ==
    [][ LET Step(at) ==
                CASE at = "scan" -> 1
                  [] at \in {"evaluate", "evaluated", "establishing", "replicating",
                             "registered", "learned"} -> 2
                  [] at = "monitor" -> 3
                  [] at \in {"sleep300", "sleep60"} -> 4
                  [] OTHER -> 0
        IN /\ pc' # "reentered"
           /\ (Step(pc) > 0 /\ Step(pc') > 0 /\ pc' # pc) =>
                  \/ Step(pc') >= Step(pc) /\ frame'.cycle = frame.cycle
                  \/ Step(pc) = 4 /\ Step(pc') = 1 /\ frame'.cycle = frame.cycle + 1
           /\ (Step(pc) \in {1, 2} /\ pc' = "sleep300") => clone_registry' = <<>>
           /\ (pc = "monitor" /\ pc' # pc) => pc' = "sleep300" ]_vars

\* The second cycle has come to its sleep after a monitoring pass over a
\* registry with a clone.
C30_Witness ==
    /\ pc = "sleep300"
    /\ frame.cycle = 2
    /\ obs.iteration = "ok"
    /\ clone_registry # <<>>
    /\ obs.attempts # <<>>

----------------------------------------------------------------------------
(* C31 *)

\* C31: every call of establish_connection(target_ip) returns a Connection
\* record for target_ip that is encrypted, has protocol 'custom' and status
\* 'active', and whose technique is one of the five evasion techniques.
C31_EveryCallReturnsAConnection ==
    call.op = "establish_connection" =>
        /\ ~call.raised
        /\ call.connection.target_ip = call.target_ip
        /\ call.connection.encrypted
        /\ call.connection.protocol = "custom"
        /\ call.connection.status = "active"
        /\ call.connection.technique \in
               {"traffic_randomization", "packet_fragmentation", "timing_obfuscation",
                "protocol_mimicry", "proxy_chaining"}

----------------------------------------------------------------------------
(* C32 *)

\* C32: scan_targets returns at most 50 pairwise distinct host addresses,
\* all of the scanned range (192.168.1.0/24 when no range is given), in the
\* order in which they were tested; for a range that cannot be parsed it
\* returns the empty list without raising.
C32_ScanReturnsDistinctHostsOfRange ==
    call.op = "scan_targets" =>
        LET targets == call.targets
            \* The range scanned: the detected local network when none was given.
            range == IF call.network_range = None
                     THEN [address |-> <<192, 168, 1, 0>>, prefix |-> 24]
                     ELSE call.network_range
            block == Pow2(32 - range.prefix)
            low == (range.address[4] \div block) * block
            InScannedRange(host) ==
                /\ range.prefix <= 32
                /\ \A k \in 1..3 : host[k] = range.address[k]
                /\ host[4] \in low..(low + block - 1)
        IN /\ ~call.raised
           /\ Len(targets) <= 50
           /\ \A i, j \in DOMAIN targets : targets[i] = targets[j] => i = j
           /\ \A i \in DOMAIN targets :
                InScannedRange(targets[i])
           /\ \A i, j \in DOMAIN targets :
                i < j => \E a, b \in DOMAIN call.tested :
                            /\ a < b
                            /\ call.tested[a] = targets[i]
                            /\ call.tested[b] = targets[j]
           /\ (call.network_range # None /\ call.network_range.prefix > 32)
                => targets = <<>>

\* A scan of the default range that tested 50 of its 254 hosts and found
\* every one alive.
C32_Witness ==
    /\ call.op = "scan_targets"
    /\ call.network_range = None
    /\ Len(call.targets) = 50
    /\ call.targets[1] # <<192, 168, 1, 1>>

----------------------------------------------------------------------------
(* C33 *)

\* C33: if replicate raises, the entanglement map and the quantum-state map
\* are exactly as they were before the call.
C33_RaisingReplicateLeavesMaps ==
    [][(call'.op = "replicate" /\ call'.raised)
          => /\ entanglement_pairs' = entanglement_pairs
             /\ quantum_state' = quantum_state]_vars

\* replicate raised on a replicator that has an entangled clone.
C33_Witness ==
    /\ call.op = "replicate"
    /\ call.raised
    /\ entanglement_pairs # <<>>
    /\ quantum_state # <<>>

----------------------------------------------------------------------------
(* C34 *)

\* C34: in every state reachable by running the Orchestrator, every clone id
\* of the in-memory clone registry is in the entanglement map; monitor_clones
\* never finds an unhealthy registered clone, and handle_unhealthy_clone
\* (with its re-entry into autonomous_operation) is never invoked.
C34_RegisteredClonesAreEntangled ==
    /\ \A i \in DOMAIN clone_registry :
          clone_registry[i][1] \in DOMAIN entanglement_pairs
    /\ \A i \in DOMAIN clone_registry :
          CheckCloneStatus(entanglement_pairs, quantum_state,
                           clone_registry[i][1]).healthy
    /\ pc # "reentered"

\* A monitoring pass over a registry with a clone has ended.
C34_Witness ==
    /\ pc = "sleep300"
    /\ clone_registry # <<>>
    /\ obs.iteration = "ok"

----------------------------------------------------------------------------
(* C35 *)

\* C35: whenever evaluate_target recommends REPLICATE, for any snapshot and
\* any risk tolerance in [0.4, 0.8], the returned risk_score is not greater
\* than 0.7, so the risk gate of replicate_to_target does not abort the
\* target.
C35_ReplicateRecommendationPassesGate ==
    (call.op = "evaluate_target" /\ call.evaluation.recommendation = "REPLICATE")
        => /\ call.evaluation.risk_score <= 700
           /\ ~RiskTooHigh(call.evaluation)

\* REPLICATE was recommended by an engine with tolerance 0.8 for a target
\* whose risk is above the lowest tolerance, 0.4.
C35_Witness ==
    /\ call.op = "evaluate_target"
    /\ call.evaluation.recommendation = "REPLICATE"
    /\ risk_tolerance = 80
    /\ call.evaluation.risk_score > 400

----------------------------------------------------------------------------
(* C36 *)

\* C36: repair_clone(c) on a clone id c that is not in the entanglement map
\* returns success, creates no entanglement entry and only records a quantum
\* state for c, so check_clone_status(c) still reports unhealthy.
C36_RepairDoesNotEntangle ==
    [][(call'.op = "repair_clone" /\ ~call'.entangled)
          => /\ call'.result = TRUE
             /\ entanglement_pairs' = entanglement_pairs
             /\ call'.arg \notin DOMAIN entanglement_pairs'
             /\ call'.arg \in DOMAIN quantum_state'
             /\ \A c \in DOMAIN quantum_state' \ {call'.arg} :
                   c \in DOMAIN quantum_state /\ quantum_state'[c] = quantum_state[c]
             /\ ~CheckCloneStatus(entanglement_pairs', quantum_state', call'.arg).healthy]_vars

\* repair_clone returned for an id that has no entanglement, on a replicator
\* that holds an entangled clone.
C36_Witness ==
    /\ call.op = "repair_clone"
    /\ ~call.entangled
    /\ call.result = TRUE
    /\ entanglement_pairs # <<>>
    /\ call.arg \in DOMAIN quantum_state

----------------------------------------------------------------------------
(* C37 *)

\* C37: after any sequence of replicate, repair_clone and terminate_clone
\* calls on a QuantumReplicator that started with empty maps, every clone id
\* in the entanglement map has an entry in the quantum-state map.
C37_EntangledClonesHaveQuantumState ==
    \A c \in DOMAIN entanglement_pairs : c \in DOMAIN quantum_state

\* terminate_clone removed an entangled clone and another clone is still
\* entangled.
C37_Witness ==
    /\ call.op = "terminate_clone"
    /\ call.entangled
    /\ entanglement_pairs # <<>>
    /\ call.arg \notin DOMAIN quantum_state

----------------------------------------------------------------------------
(* C38 *)

\* C38: for every successful replicate_to_target, the generation written
\* into the clone's replication-package configuration equals the generation
\* stored for that clone by register_clone.
C38_PackageGenerationIsStoredGeneration ==
    [][(pc \in {"replicating", "registered"} /\ obs'.attempts # obs.attempts
          /\ obs'.returned.result)
          => \E i \in DOMAIN clones' :
                /\ clones'[i].clone_id = frame.pending.clone_id
                /\ clones'[i].generation = frame.pending.generation]_vars

----------------------------------------------------------------------------
(* C39 *)

\* C39: each Orchestrator.evaluate_target call appends exactly one entry to
\* the decision history and at most one row to target_evaluations; the rows
\* persisted never outnumber the history entries added, and the two numbers
\* are equal when no store error occurred (the store has been writable at
\* every evaluation).
C39_OneHistoryEntryAtMostOneRow ==
    /\ [](Len(target_evaluations) <= Len(decision_history))
    /\ [](connection = "open" => target_evaluations = decision_history)
    /\ [][/\ pc = "evaluate" /\ pc' # "evaluate"
             => /\ decision_history' = Append(decision_history, Last(decision_history', 1)[1])
                /\ \/ target_evaluations' = target_evaluations
                   \/ target_evaluations' =
                          Append(target_evaluations, Last(decision_history', 1)[1])
          /\ (pc # "evaluate" \/ pc' = "evaluate")
             => /\ decision_history' = decision_history
                /\ target_evaluations' = target_evaluations]_vars

\* Two evaluations were made; the first was stored, the second was not.
C39_Witness ==
    /\ Len(decision_history) = 2
    /\ Len(target_evaluations) = 1
    /\ target_evaluations[1] = decision_history[1]

=============================================================================
